---- MODULE Spec2Model ----
(***************************************************************************)
(* Loan lifecycle, fine engine, query parser and searches of the library   *)
(* backend (src/backend/api.py: checkout, checkin, update_fines,           *)
(* pay_loan_fine, pay_borrower_fines, create_borrower and the six search   *)
(* operations; src/backend/query.py: Query), over the relations BORROWER,  *)
(* BOOK, BOOK_AUTHORS, BOOK_LOANS and FINES.  Under Spec, SpecCap,         *)
(* SpecTrace and SpecBorrower every operation runs to completion as one    *)
(* step; under SpecBorrowerRace, SpecCheckoutRace and SpecFineRace the     *)
(* calls of the request handlers interleave statement by statement; under  *)
(* SpecQuery query strings are parsed, and under SpecSearch a search is    *)
(* made over a catalogue.  Dates are day numbers; money is in cents; a     *)
(* card_id string is the sequence of its character codes where its text    *)
(* matters, and a Python str of the parser is the sequence of its          *)
(* characters.                                                             *)
(***************************************************************************)
EXTENDS Integers, Sequences, FiniteSets, TLC

VARIABLES BORROWER,    \* set of card_id in table BORROWER
          BOOK,        \* set of isbn in table BOOK
          BOOK_LOANS,  \* sequence of loan rows; AUTOINCREMENT loan_id = position
          FINES,       \* set of fine rows [loan_id, fine_amt, paid]
          today,       \* the clock read by date.today()
          result,      \* the most recent call today and its outcome:
                       \* [op, args, exc, msg, ret]
          Ssn,         \* column Ssn of table BORROWER: card_id -> ssn
          calls,       \* per request handler, the call it is running:
                       \* [op, args, pc, row, card_id, exc, msg, ret, todo,
                       \* undo, snap]
          Title,       \* column Title of table BOOK: isbn -> title
          BOOK_AUTHORS \* rows [isbn, name] of BOOK_AUTHORS joined with AUTHORS

vars == <<BORROWER, BOOK, BOOK_LOANS, FINES, today, result, Ssn, calls, Title,
         BOOK_AUTHORS>>

----------------------------------------------------------------------------
(* Program constants *)

MAX_ACTIVE_LOANS == 3
LOAN_DURATION_DAYS == 14
FINE_RATE_CENTS == 25

(* Bounds of the model *)

NumBorrowers == 2      \* card_ids stored in BORROWER under Spec
NumCapBorrowers == 1   \* card_ids stored in BORROWER under SpecCap
NumBooks == 2          \* isbns stored in BOOK under Spec
MaxLoans == 2          \* rows ever inserted into BOOK_LOANS under Spec
MaxDay == 15           \* last day the clock reaches under Spec
NumCapBooks == 4       \* isbns stored in BOOK under SpecCap
MaxCapLoans == 4       \* rows ever inserted into BOOK_LOANS under SpecCap
NumTraceBooks == 2     \* isbns stored in BOOK under SpecTrace
MaxTraceLoans == 1     \* rows ever inserted into BOOK_LOANS under SpecTrace
NumSsns == 3           \* distinct ssn values passed to create_borrower
MaxBorrowers == 3      \* rows ever inserted into BORROWER under SpecBorrower
NumHandlers == 2       \* request handlers, each serving one request
NumRaceBooks == 3      \* isbns stored in BOOK under SpecCheckoutRace

NumSearchBooks == 2    \* isbns stored in BOOK under SpecSearch
MaxAuthorRows == 2     \* rows stored in BOOK_AUTHORS under SpecSearch
MaxLimit == 2          \* limit of a search runs from 0 to MaxLimit, or is unset
MaxPage == 2           \* page of a search runs from 0 to MaxPage
MaxNumber == 2         \* page and limit values in a query run from -MaxNumber to MaxNumber
NULL == 0 - 1          \* SQL NULL / Python None in a date column

\* Call arguments: every stored key and one key that is not stored
CardIds == BORROWER \cup {Cardinality(BORROWER) + 1}
Isbns == BOOK \cup {Cardinality(BOOK) + 1}
\* Sweep dates: from the day before the first due date to the day after the
\* clock's last day
Dates == (LOAN_DURATION_DAYS - 1)..(MaxDay + 1)
\* Sweep dates under SpecCap: today, and a date past every due date
CapDates == {today, today + LOAN_DURATION_DAYS + 1}
\* Days past the due date at which the end-to-end run sweeps
TraceAhead == {1, 20}

----------------------------------------------------------------------------
(* Queries used by the operations *)

LoanIds == 1..Len(BOOK_LOANS)

IsActive(l) == l.date_in = NULL

ActiveLoansOfBook(isbn) ==
    {i \in LoanIds : BOOK_LOANS[i].isbn = isbn /\ IsActive(BOOK_LOANS[i])}

ActiveLoansOfBorrower(card_id) ==
    {i \in LoanIds : BOOK_LOANS[i].card_id = card_id /\ IsActive(BOOK_LOANS[i])}

RECURSIVE SumFines(_)
SumFines(rows) ==
    IF rows = {} THEN 0
    ELSE LET r == CHOOSE x \in rows : TRUE
         IN r.fine_amt + SumFines(rows \ {r})

\* SELECT COALESCE(SUM(F.fine_amt), 0) ... WHERE BL.card_id = %s AND F.paid = FALSE
get_user_fines(card_id) ==
    SumFines({f \in FINES : /\ f.loan_id \in LoanIds
                            /\ BOOK_LOANS[f.loan_id].card_id = card_id
                            /\ f.paid = FALSE})

FineRowsOf(loan_id) == {f \in FINES : f.loan_id = loan_id}

\* COALESCE(F.fine_amt, 0), COALESCE(F.paid, FALSE) over the LEFT JOIN
LoanView(rows, fines, loan_id) ==
    LET fs == {f \in fines : f.loan_id = loan_id}
        f  == IF fs = {} THEN [loan_id |-> loan_id, fine_amt |-> 0, paid |-> FALSE]
              ELSE CHOOSE x \in fs : TRUE
    IN [loan_id  |-> loan_id,
        isbn     |-> rows[loan_id].isbn,
        card_id  |-> rows[loan_id].card_id,
        date_out |-> rows[loan_id].date_out,
        due_date |-> rows[loan_id].due_date,
        date_in  |-> rows[loan_id].date_in,
        fine_amt |-> f.fine_amt,
        paid     |-> f.paid]

Raise(op, args, exc, msg) ==
    [op |-> op, args |-> args, exc |-> exc, msg |-> msg, ret |-> <<>>]
Return(op, args, ret) ==
    [op |-> op, args |-> args, exc |-> "none", msg |-> "ok", ret |-> ret]
NoCall == Return("none", <<>>, <<>>)

\* A request handler that is running no call
Idle == [op |-> "none", args |-> <<>>, pc |-> "idle", row |-> <<>>,
         card_id |-> <<>>, exc |-> "none", msg |-> "ok", ret |-> <<>>,
         todo |-> <<>>, undo |-> {}, snap |-> <<>>]
Handlers == 1..NumHandlers
NoCalls == [h \in Handlers |-> Idle]

----------------------------------------------------------------------------
(* checkout(card_id, isbn) *)

\* Variants of the precondition chain against which the properties are
\* tested: without the availability check, with the fine and availability
\* checks swapped, with the cap compared by > instead of >=, and without the
\* unpaid-fine check.
CheckoutError_NoAvailability(card_id, isbn) ==
    IF card_id \notin BORROWER THEN <<"ObjectDoesNotExist", "borrower_missing">>
    ELSE IF isbn \notin BOOK THEN <<"ObjectDoesNotExist", "book_missing">>
    ELSE IF get_user_fines(card_id) > 0
         THEN <<"ValidationError", "unpaid_fines">>
    ELSE IF Cardinality(ActiveLoansOfBorrower(card_id)) >= MAX_ACTIVE_LOANS
         THEN <<"ValidationError", "max_active_loans">>
    ELSE <<"none", "ok">>

CheckoutError_FinesFirst(card_id, isbn) ==
    IF card_id \notin BORROWER THEN <<"ObjectDoesNotExist", "borrower_missing">>
    ELSE IF isbn \notin BOOK THEN <<"ObjectDoesNotExist", "book_missing">>
    ELSE IF get_user_fines(card_id) > 0
         THEN <<"ValidationError", "unpaid_fines">>
    ELSE IF Cardinality(ActiveLoansOfBook(isbn)) > 0
         THEN <<"ValidationError", "book_on_loan">>
    ELSE IF Cardinality(ActiveLoansOfBorrower(card_id)) >= MAX_ACTIVE_LOANS
         THEN <<"ValidationError", "max_active_loans">>
    ELSE <<"none", "ok">>

CheckoutError_CapOffByOne(card_id, isbn) ==
    IF card_id \notin BORROWER THEN <<"ObjectDoesNotExist", "borrower_missing">>
    ELSE IF isbn \notin BOOK THEN <<"ObjectDoesNotExist", "book_missing">>
    ELSE IF Cardinality(ActiveLoansOfBook(isbn)) > 0
         THEN <<"ValidationError", "book_on_loan">>
    ELSE IF get_user_fines(card_id) > 0
         THEN <<"ValidationError", "unpaid_fines">>
    ELSE IF Cardinality(ActiveLoansOfBorrower(card_id)) > MAX_ACTIVE_LOANS
         THEN <<"ValidationError", "max_active_loans">>
    ELSE <<"none", "ok">>

CheckoutError_NoFines(card_id, isbn) ==
    IF card_id \notin BORROWER THEN <<"ObjectDoesNotExist", "borrower_missing">>
    ELSE IF isbn \notin BOOK THEN <<"ObjectDoesNotExist", "book_missing">>
    ELSE IF Cardinality(ActiveLoansOfBook(isbn)) > 0
         THEN <<"ValidationError", "book_on_loan">>
    ELSE IF Cardinality(ActiveLoansOfBorrower(card_id)) >= MAX_ACTIVE_LOANS
         THEN <<"ValidationError", "max_active_loans">>
    ELSE <<"none", "ok">>

CheckoutError(card_id, isbn) ==
    IF card_id \notin BORROWER THEN <<"ObjectDoesNotExist", "borrower_missing">>
    ELSE IF isbn \notin BOOK THEN <<"ObjectDoesNotExist", "book_missing">>
    ELSE IF Cardinality(ActiveLoansOfBook(isbn)) > 0
         THEN <<"ValidationError", "book_on_loan">>
    ELSE IF get_user_fines(card_id) > 0
         THEN <<"ValidationError", "unpaid_fines">>
    ELSE IF Cardinality(ActiveLoansOfBorrower(card_id)) >= MAX_ACTIVE_LOANS
         THEN <<"ValidationError", "max_active_loans">>
    ELSE <<"none", "ok">>

\* Variant: the due date one day short.
NewLoan_ShortDue(card_id, isbn) ==
    [isbn     |-> isbn,
     card_id  |-> card_id,
     date_out |-> today,
     due_date |-> today + LOAN_DURATION_DAYS - 1,
     date_in  |-> NULL]

NewLoan(card_id, isbn) ==
    [isbn     |-> isbn,
     card_id  |-> card_id,
     date_out |-> today,
     due_date |-> today + LOAN_DURATION_DAYS,
     date_in  |-> NULL]

\* Variant: the row is inserted before the checks are made.
checkout_InsertFirst(card_id, isbn) ==
    LET e == CheckoutError(card_id, isbn) IN
    /\ BOOK_LOANS' = Append(BOOK_LOANS, NewLoan(card_id, isbn))
    /\ result' = IF e[1] # "none"
                 THEN Raise("checkout", <<card_id, isbn>>, e[1], e[2])
                 ELSE Return("checkout", <<card_id, isbn>>,
                        <<[LoanView(BOOK_LOANS', {}, Len(BOOK_LOANS) + 1)
                             EXCEPT !.fine_amt = 0, !.paid = FALSE]>>)
    /\ UNCHANGED <<BORROWER, BOOK, FINES, today>>

checkout(card_id, isbn) ==
    LET e == CheckoutError(card_id, isbn) IN
    IF e[1] # "none"
    THEN /\ result' = Raise("checkout", <<card_id, isbn>>, e[1], e[2])
         /\ UNCHANGED <<BORROWER, BOOK, BOOK_LOANS, FINES, today>>
    ELSE /\ BOOK_LOANS' = Append(BOOK_LOANS, NewLoan(card_id, isbn))
         /\ result' = Return("checkout", <<card_id, isbn>>,
                <<[LoanView(BOOK_LOANS', {}, Len(BOOK_LOANS) + 1)
                     EXCEPT !.fine_amt = 0, !.paid = FALSE]>>)
         /\ UNCHANGED <<BORROWER, BOOK, FINES, today>>

----------------------------------------------------------------------------
(* checkin(loan_id) *)

\* Variants: without the already-returned check; and with the date written
\* before the check is made.
checkin_NoReturnedCheck(loan_id) ==
    IF loan_id \notin LoanIds
    THEN /\ result' = Raise("checkin", <<loan_id>>, "ObjectDoesNotExist", "loan_missing")
         /\ UNCHANGED <<BORROWER, BOOK, BOOK_LOANS, FINES, today>>
    ELSE /\ BOOK_LOANS' = [BOOK_LOANS EXCEPT ![loan_id].date_in = today]
         /\ result' = Return("checkin", <<loan_id>>, <<LoanView(BOOK_LOANS', FINES, loan_id)>>)
         /\ UNCHANGED <<BORROWER, BOOK, FINES, today>>

checkin_WriteFirst(loan_id) ==
    IF loan_id \notin LoanIds
    THEN /\ result' = Raise("checkin", <<loan_id>>, "ObjectDoesNotExist", "loan_missing")
         /\ UNCHANGED <<BORROWER, BOOK, BOOK_LOANS, FINES, today>>
    ELSE /\ BOOK_LOANS' = [BOOK_LOANS EXCEPT ![loan_id].date_in = today]
         /\ result' = IF BOOK_LOANS[loan_id].date_in # NULL
                       THEN Raise("checkin", <<loan_id>>, "ValidationError", "already_returned")
                       ELSE Return("checkin", <<loan_id>>,
                                   <<LoanView(BOOK_LOANS', FINES, loan_id)>>)
         /\ UNCHANGED <<BORROWER, BOOK, FINES, today>>

checkin(loan_id) ==
    IF loan_id \notin LoanIds
    THEN /\ result' = Raise("checkin", <<loan_id>>, "ObjectDoesNotExist", "loan_missing")
         /\ UNCHANGED <<BORROWER, BOOK, BOOK_LOANS, FINES, today>>
    ELSE IF BOOK_LOANS[loan_id].date_in # NULL
    THEN /\ result' = Raise("checkin", <<loan_id>>, "ValidationError", "already_returned")
         /\ UNCHANGED <<BORROWER, BOOK, BOOK_LOANS, FINES, today>>
    ELSE /\ BOOK_LOANS' = [BOOK_LOANS EXCEPT ![loan_id].date_in = today]
         /\ result' = Return("checkin", <<loan_id>>, <<LoanView(BOOK_LOANS', FINES, loan_id)>>)
         /\ UNCHANGED <<BORROWER, BOOK, FINES, today>>

----------------------------------------------------------------------------
(* update_fines(current_date) *)

\* WHERE due_date < %s AND (date_in IS NULL OR date_in > due_date)
Overdue(current_date) ==
    {i \in LoanIds : /\ BOOK_LOANS[i].due_date < current_date
                     /\ \/ BOOK_LOANS[i].date_in = NULL
                        \/ BOOK_LOANS[i].date_in > BOOK_LOANS[i].due_date}

\* Variants: the due date itself counted as a late day; and the sweep date
\* used even for a returned loan.
DaysLate_Inclusive(l, current_date) ==
    LET end_date == IF l.date_in # NULL THEN l.date_in ELSE current_date
    IN end_date - l.due_date + 1

DaysLate_IgnoreReturn(l, current_date) == current_date - l.due_date

DaysLate(l, current_date) ==
    LET end_date == IF l.date_in # NULL THEN l.date_in ELSE current_date
    IN end_date - l.due_date

\* Decimal(str(days_late * 0.25)): a multiple of 0.25 is exact in binary
\* floating point and prints with at most two decimals, so the stored
\* DECIMAL(10,2) is days_late * 25 cents
FineAmt(l, current_date) == DaysLate(l, current_date) * FINE_RATE_CENTS

\* Variants of the sweep: the UPDATE without its paid = FALSE filter; the
\* UPDATE adding the computed amount to the stored one; and the UPDATE
\* rewriting the whole row, paid flag included.
update_fines_OverwritePaid(current_date) ==
    LET sel == Overdue(current_date)
        updated == {IF f.loan_id \in sel
                    THEN [f EXCEPT !.fine_amt = FineAmt(BOOK_LOANS[f.loan_id], current_date)]
                    ELSE f : f \in FINES}
        inserted == {[loan_id |-> i,
                      fine_amt |-> FineAmt(BOOK_LOANS[i], current_date),
                      paid |-> FALSE] : i \in {j \in sel : FineRowsOf(j) = {}}}
    IN /\ FINES' = updated \cup inserted
       /\ result' = Return("update_fines", <<current_date>>, <<>>)
       /\ UNCHANGED <<BORROWER, BOOK, BOOK_LOANS, today>>

update_fines_Accumulate(current_date) ==
    LET sel == Overdue(current_date)
        updated == {IF f.loan_id \in sel /\ f.paid = FALSE
                    THEN [f EXCEPT !.fine_amt =
                            f.fine_amt + FineAmt(BOOK_LOANS[f.loan_id], current_date)]
                    ELSE f : f \in FINES}
        inserted == {[loan_id |-> i,
                      fine_amt |-> FineAmt(BOOK_LOANS[i], current_date),
                      paid |-> FALSE] : i \in {j \in sel : FineRowsOf(j) = {}}}
    IN /\ FINES' = updated \cup inserted
       /\ result' = Return("update_fines", <<current_date>>, <<>>)
       /\ UNCHANGED <<BORROWER, BOOK, BOOK_LOANS, today>>

update_fines_ResetPaid(current_date) ==
    LET sel == Overdue(current_date)
        updated == {IF f.loan_id \in sel
                    THEN [f EXCEPT !.fine_amt = FineAmt(BOOK_LOANS[f.loan_id], current_date),
                                   !.paid = FALSE]
                    ELSE f : f \in FINES}
        inserted == {[loan_id |-> i,
                      fine_amt |-> FineAmt(BOOK_LOANS[i], current_date),
                      paid |-> FALSE] : i \in {j \in sel : FineRowsOf(j) = {}}}
    IN /\ FINES' = updated \cup inserted
       /\ result' = Return("update_fines", <<current_date>>, <<>>)
       /\ UNCHANGED <<BORROWER, BOOK, BOOK_LOANS, today>>

update_fines(current_date) ==
    LET sel == Overdue(current_date)
        updated == {IF f.loan_id \in sel /\ f.paid = FALSE
                    THEN [f EXCEPT !.fine_amt = FineAmt(BOOK_LOANS[f.loan_id], current_date)]
                    ELSE f : f \in FINES}
        inserted == {[loan_id |-> i,
                      fine_amt |-> FineAmt(BOOK_LOANS[i], current_date),
                      paid |-> FALSE] : i \in {j \in sel : FineRowsOf(j) = {}}}
    IN /\ FINES' = updated \cup inserted
       /\ result' = Return("update_fines", <<current_date>>, <<>>)
       /\ UNCHANGED <<BORROWER, BOOK, BOOK_LOANS, today>>

----------------------------------------------------------------------------
(* pay_loan_fine(loan_id), pay_borrower_fines(card_id) *)

\* Variant: the UPDATE without its WHERE loan_id clause.
pay_loan_fine_NoWhere(loan_id) ==
    IF loan_id \notin LoanIds
    THEN /\ result' = Raise("pay_loan_fine", <<loan_id>>, "ObjectDoesNotExist", "loan_missing")
         /\ UNCHANGED <<BORROWER, BOOK, BOOK_LOANS, FINES, today>>
    ELSE /\ FINES' = {[f EXCEPT !.paid = TRUE] : f \in FINES}
         /\ result' = Return("pay_loan_fine", <<loan_id>>, <<LoanView(BOOK_LOANS, FINES', loan_id)>>)
         /\ UNCHANGED <<BORROWER, BOOK, BOOK_LOANS, today>>

pay_loan_fine(loan_id) ==
    IF loan_id \notin LoanIds
    THEN /\ result' = Raise("pay_loan_fine", <<loan_id>>, "ObjectDoesNotExist", "loan_missing")
         /\ UNCHANGED <<BORROWER, BOOK, BOOK_LOANS, FINES, today>>
    ELSE /\ FINES' = {IF f.loan_id = loan_id THEN [f EXCEPT !.paid = TRUE] ELSE f
                        : f \in FINES}
         /\ result' = Return("pay_loan_fine", <<loan_id>>, <<LoanView(BOOK_LOANS, FINES', loan_id)>>)
         /\ UNCHANGED <<BORROWER, BOOK, BOOK_LOANS, today>>

\* Variant: the SELECT without its BL.card_id clause.
PayableLoans_AnyBorrower(card_id) ==
    {i \in LoanIds : \E f \in FINES : /\ f.loan_id = i
                                      /\ f.paid = FALSE
                                      /\ f.fine_amt > 0}

\* SELECT BL.loan_id ... WHERE BL.card_id = %s AND F.paid = FALSE AND F.fine_amt > 0
PayableLoans(card_id) ==
    {i \in LoanIds : /\ BOOK_LOANS[i].card_id = card_id
                     /\ \E f \in FINES : /\ f.loan_id = i
                                         /\ f.paid = FALSE
                                         /\ f.fine_amt > 0}

RECURSIVE LoanList(_, _, _)
LoanList(rows, fines, ids) ==
    IF ids = {} THEN <<>>
    ELSE LET i == CHOOSE x \in ids : \A y \in ids : x <= y
         IN <<LoanView(rows, fines, i)>> \o LoanList(rows, fines, ids \ {i})

pay_borrower_fines(card_id) ==
    IF card_id \notin BORROWER
    THEN /\ result' = Raise("pay_borrower_fines", <<card_id>>,
                          "ObjectDoesNotExist", "borrower_missing")
         /\ UNCHANGED <<BORROWER, BOOK, BOOK_LOANS, FINES, today>>
    ELSE LET loan_ids == PayableLoans(card_id) IN
         /\ FINES' = {IF f.loan_id \in loan_ids THEN [f EXCEPT !.paid = TRUE] ELSE f
                        : f \in FINES}
         /\ result' = Return("pay_borrower_fines", <<card_id>>,
                            LoanList(BOOK_LOANS, FINES', loan_ids))
         /\ UNCHANGED <<BORROWER, BOOK, BOOK_LOANS, today>>

----------------------------------------------------------------------------
(* create_borrower(ssn, bname, address, phone, card_id): card_id strings *)

CARD_ID_WIDTH == 6     \* f"ID{next_id:06d}"

\* "ID" as character codes; the digits "0".."9" are the codes 48..57
ID == <<73, 68>>
NoCardId == <<>>       \* card_id None or "": `if not card_id`

\* card_id LIKE 'ID%'
HasPrefixID(s) == Len(s) >= 2 /\ SubSeq(s, 1, 2) = ID

\* a < b in the order of ORDER BY card_id
StrLess(a, b) ==
    LET n == IF Len(a) < Len(b) THEN Len(a) ELSE Len(b) IN
    \/ \E k \in 1..n : /\ \A j \in 1..(k - 1) : a[j] = b[j]
                       /\ a[k] < b[k]
    \/ /\ \A j \in 1..n : a[j] = b[j]
       /\ Len(a) < Len(b)

IsNumeric(s) == Len(s) > 0 /\ \A k \in 1..Len(s) : s[k] \in 48..57

\* int(s) of a string of digits
RECURSIVE IntOf(_)
IntOf(s) ==
    IF Len(s) = 0 THEN 0
    ELSE 10 * IntOf(SubSeq(s, 1, Len(s) - 1)) + (s[Len(s)] - 48)

RECURSIVE DigitsOf(_)
DigitsOf(n) ==
    IF n < 10 THEN <<48 + n>>
    ELSE DigitsOf(n \div 10) \o <<48 + (n % 10)>>

RECURSIVE ZeroPad(_, _)
ZeroPad(s, width) == IF Len(s) >= width THEN s ELSE ZeroPad(<<48>> \o s, width)

\* f"{n:06d}"
Format06d(n) == ZeroPad(DigitsOf(n), CARD_ID_WIDTH)

\* SELECT card_id FROM BORROWER WHERE card_id LIKE 'ID%'
\* ORDER BY card_id DESC LIMIT 1; <<>> when no row matches
LatestCardId(rows) ==
    LET ids == {c \in rows : HasPrefixID(c)} IN
    IF ids = {} THEN <<>>
    ELSE CHOOSE c \in ids : \A d \in ids : d = c \/ StrLess(d, c)

\* The card_id generated from the fetched row; <<>> when int() raises
NextCardId(latest) ==
    IF latest = <<>> THEN ID \o Format06d(1)
    ELSE LET digits == SubSeq(latest, 3, Len(latest)) IN
         IF IsNumeric(digits) THEN ID \o Format06d(IntOf(digits) + 1)
         ELSE <<>>

StoredSsns == {Ssn[c] : c \in BORROWER}

\* Arguments of create_borrower
Ssns == 1..NumSsns
SuppliedCardIds == {NoCardId, ID \o Format06d(2), ID \o Format06d(999999)}

\* Variant: without the duplicate-SSN check.
create_borrower_NoSsnCheck(ssn, card_id) ==
    LET args == <<ssn, card_id>>
        id == IF card_id = NoCardId THEN NextCardId(LatestCardId(BORROWER)) ELSE card_id
    IN IF id = <<>>
       THEN /\ result' = Raise("create_borrower", args, "ValueError", "bad_card_id")
            /\ UNCHANGED <<BORROWER, Ssn, BOOK, BOOK_LOANS, FINES, today, calls>>
       ELSE IF id \in BORROWER
       THEN /\ result' = Raise("create_borrower", args, "IntegrityError", "duplicate_card_id")
            /\ UNCHANGED <<BORROWER, Ssn, BOOK, BOOK_LOANS, FINES, today, calls>>
       ELSE /\ BORROWER' = BORROWER \cup {id}
            /\ Ssn' = [c \in BORROWER' |-> IF c = id THEN ssn ELSE Ssn[c]]
            /\ result' = Return("create_borrower", args, <<[card_id |-> id, ssn |-> ssn]>>)
            /\ UNCHANGED <<BOOK, BOOK_LOANS, FINES, today, calls>>

create_borrower(ssn, card_id) ==
    LET args == <<ssn, card_id>> IN
    IF ssn \in StoredSsns
    THEN /\ result' = Raise("create_borrower", args, "ValidationError", "duplicate_ssn")
         /\ UNCHANGED <<BORROWER, Ssn, BOOK, BOOK_LOANS, FINES, today, calls>>
    ELSE LET id == IF card_id = NoCardId THEN NextCardId(LatestCardId(BORROWER))
                   ELSE card_id
         IN IF id = <<>>
            THEN /\ result' = Raise("create_borrower", args, "ValueError", "bad_card_id")
                 /\ UNCHANGED <<BORROWER, Ssn, BOOK, BOOK_LOANS, FINES, today, calls>>
            ELSE IF id \in BORROWER
            THEN /\ result' = Raise("create_borrower", args,
                                  "IntegrityError", "duplicate_card_id")
                 /\ UNCHANGED <<BORROWER, Ssn, BOOK, BOOK_LOANS, FINES, today, calls>>
            ELSE /\ BORROWER' = BORROWER \cup {id}
                 /\ Ssn' = [c \in BORROWER' |-> IF c = id THEN ssn ELSE Ssn[c]]
                 /\ result' = Return("create_borrower", args,
                                     <<[card_id |-> id, ssn |-> ssn]>>)
                 /\ UNCHANGED <<BOOK, BOOK_LOANS, FINES, today, calls>>

----------------------------------------------------------------------------
(* create_borrower, statement by statement, in request handler h *)

Running(op) == {h \in Handlers : calls[h].op = op /\ calls[h].pc # "done"}

Finish(h, exc, msg, ret) ==
    calls' = [calls EXCEPT ![h].pc = "done", ![h].exc = exc, ![h].msg = msg,
                           ![h].ret = ret]

BeginCreateBorrower(h, ssn, card_id) ==
    /\ calls[h].pc = "idle"
    /\ calls' = [calls EXCEPT ![h] = [Idle EXCEPT !.op = "create_borrower",
                                                 !.args = <<ssn, card_id>>,
                                                 !.card_id = card_id,
                                                 !.pc = "ssn"]]
    /\ UNCHANGED <<BORROWER, Ssn, BOOK, BOOK_LOANS, FINES, today, result>>

\* SELECT COUNT(*) FROM BORROWER WHERE ssn = %s
CreateBorrowerSsn(h) ==
    /\ calls[h].op = "create_borrower" /\ calls[h].pc = "ssn"
    /\ IF calls[h].args[1] \in StoredSsns
       THEN Finish(h, "ValidationError", "duplicate_ssn", <<>>)
       ELSE calls' = [calls EXCEPT ![h].pc = IF calls[h].card_id = NoCardId
                                             THEN "generate" ELSE "insert"]
    /\ UNCHANGED <<BORROWER, Ssn, BOOK, BOOK_LOANS, FINES, today, result>>

\* Variant: the allocator skips an id that another running call holds.
CreateBorrowerGenerate_Reserving(h) ==
    /\ calls[h].op = "create_borrower" /\ calls[h].pc = "generate"
    /\ LET row == LatestCardId(BORROWER)
           id == NextCardId(row)
           held == {calls[g].card_id : g \in Running("create_borrower") \ {h}}
       IN IF id = <<>>
          THEN Finish(h, "ValueError", "bad_card_id", <<>>)
          ELSE calls' = [calls EXCEPT ![h].row = row,
                                      ![h].card_id = IF id \in held THEN NextCardId(id)
                                                     ELSE id,
                                      ![h].pc = "insert"]
    /\ UNCHANGED <<BORROWER, Ssn, BOOK, BOOK_LOANS, FINES, today, result>>

\* SELECT card_id ... ORDER BY card_id DESC LIMIT 1; result = cursor.fetchone();
\* card_id = f"ID{next_id:06d}"
CreateBorrowerGenerate(h) ==
    /\ calls[h].op = "create_borrower" /\ calls[h].pc = "generate"
    /\ LET row == LatestCardId(BORROWER)
           id == NextCardId(row)
       IN IF id = <<>>
          THEN Finish(h, "ValueError", "bad_card_id", <<>>)
          ELSE calls' = [calls EXCEPT ![h].row = row, ![h].card_id = id,
                                      ![h].pc = "insert"]
    /\ UNCHANGED <<BORROWER, Ssn, BOOK, BOOK_LOANS, FINES, today, result>>

\* INSERT INTO BORROWER ...; Card_id is the primary key and Ssn is unique
CreateBorrowerInsert(h) ==
    /\ calls[h].op = "create_borrower" /\ calls[h].pc = "insert"
    /\ LET id == calls[h].card_id
           ssn == calls[h].args[1]
       IN IF id \in BORROWER \/ ssn \in StoredSsns
          THEN /\ Finish(h, "IntegrityError", "duplicate_key", <<>>)
               /\ UNCHANGED <<BORROWER, Ssn>>
          ELSE /\ BORROWER' = BORROWER \cup {id}
               /\ Ssn' = [c \in BORROWER' |-> IF c = id THEN ssn ELSE Ssn[c]]
               /\ Finish(h, "none", "ok", <<[card_id |-> id, ssn |-> ssn]>>)
    /\ UNCHANGED <<BOOK, BOOK_LOANS, FINES, today, result>>

----------------------------------------------------------------------------
(* checkout, statement by statement, in request handler h *)

BeginCheckout(h, card_id, isbn) ==
    /\ calls[h].pc = "idle"
    /\ calls' = [calls EXCEPT ![h] = [Idle EXCEPT !.op = "checkout",
                                                 !.args = <<card_id, isbn>>,
                                                 !.pc = "borrower"]]
    /\ UNCHANGED <<BORROWER, Ssn, BOOK, BOOK_LOANS, FINES, today, result>>

\* 1. SELECT COUNT(*) FROM BORROWER WHERE card_id = %s
CheckoutBorrower(h) ==
    /\ calls[h].op = "checkout" /\ calls[h].pc = "borrower"
    /\ IF calls[h].args[1] \notin BORROWER
       THEN Finish(h, "ObjectDoesNotExist", "borrower_missing", <<>>)
       ELSE calls' = [calls EXCEPT ![h].pc = "book"]
    /\ UNCHANGED <<BORROWER, Ssn, BOOK, BOOK_LOANS, FINES, today, result>>

\* 2. SELECT COUNT(*) FROM BOOK WHERE isbn = %s
CheckoutBook(h) ==
    /\ calls[h].op = "checkout" /\ calls[h].pc = "book"
    /\ IF calls[h].args[2] \notin BOOK
       THEN Finish(h, "ObjectDoesNotExist", "book_missing", <<>>)
       ELSE calls' = [calls EXCEPT ![h].pc = "available"]
    /\ UNCHANGED <<BORROWER, Ssn, BOOK, BOOK_LOANS, FINES, today, result>>

\* 3. SELECT COUNT(*) FROM BOOK_LOANS WHERE isbn = %s AND date_in IS NULL
CheckoutAvailable(h) ==
    /\ calls[h].op = "checkout" /\ calls[h].pc = "available"
    /\ IF Cardinality(ActiveLoansOfBook(calls[h].args[2])) > 0
       THEN Finish(h, "ValidationError", "book_on_loan", <<>>)
       ELSE calls' = [calls EXCEPT ![h].pc = "fines"]
    /\ UNCHANGED <<BORROWER, Ssn, BOOK, BOOK_LOANS, FINES, today, result>>

\* 4. SELECT COALESCE(SUM(F.fine_amt), 0) ...
CheckoutFines(h) ==
    /\ calls[h].op = "checkout" /\ calls[h].pc = "fines"
    /\ IF get_user_fines(calls[h].args[1]) > 0
       THEN Finish(h, "ValidationError", "unpaid_fines", <<>>)
       ELSE calls' = [calls EXCEPT ![h].pc = "cap"]
    /\ UNCHANGED <<BORROWER, Ssn, BOOK, BOOK_LOANS, FINES, today, result>>

\* 5. SELECT COUNT(*) FROM BOOK_LOANS WHERE card_id = %s AND date_in IS NULL
CheckoutCap(h) ==
    /\ calls[h].op = "checkout" /\ calls[h].pc = "cap"
    /\ IF Cardinality(ActiveLoansOfBorrower(calls[h].args[1])) >= MAX_ACTIVE_LOANS
       THEN Finish(h, "ValidationError", "max_active_loans", <<>>)
       ELSE calls' = [calls EXCEPT ![h].pc = "insert"]
    /\ UNCHANGED <<BORROWER, Ssn, BOOK, BOOK_LOANS, FINES, today, result>>

\* Variant: the INSERT refused when the isbn has an active loan.
CheckoutInsert_Guarded(h) ==
    /\ calls[h].op = "checkout" /\ calls[h].pc = "insert"
    /\ IF Cardinality(ActiveLoansOfBook(calls[h].args[2])) > 0
       THEN /\ Finish(h, "IntegrityError", "duplicate_key", <<>>)
            /\ UNCHANGED BOOK_LOANS
       ELSE /\ BOOK_LOANS' = Append(BOOK_LOANS, NewLoan(calls[h].args[1], calls[h].args[2]))
            /\ Finish(h, "none", "ok",
                      <<[LoanView(BOOK_LOANS', {}, Len(BOOK_LOANS) + 1)
                           EXCEPT !.fine_amt = 0, !.paid = FALSE]>>)
    /\ UNCHANGED <<BORROWER, Ssn, BOOK, FINES, today, result>>

\* with transaction.atomic(): INSERT INTO BOOK_LOANS ...; SELECT LAST_INSERT_ID();
\* SELECT ... WHERE loan_id = %s
CheckoutInsert(h) ==
    /\ calls[h].op = "checkout" /\ calls[h].pc = "insert"
    /\ BOOK_LOANS' = Append(BOOK_LOANS, NewLoan(calls[h].args[1], calls[h].args[2]))
    /\ Finish(h, "none", "ok",
              <<[LoanView(BOOK_LOANS', {}, Len(BOOK_LOANS) + 1)
                   EXCEPT !.fine_amt = 0, !.paid = FALSE]>>)
    /\ UNCHANGED <<BORROWER, Ssn, BOOK, FINES, today, result>>

----------------------------------------------------------------------------
(* Query.of(query_string) (src/backend/query.py).  A Python str is the      *)
(* sequence of its characters.  A Python value is a record [t, s, n]: its   *)
(* type t, its characters or enum member name s, its number n.  A Query     *)
(* object is the function from its attribute names to their values.         *)

\* The names of the attributes of a Query object as str
Lit ==
    ("raw_query" :> <<"r", "a", "w", "_", "q", "u", "e", "r", "y">>)
    @@ ("any_term" :> <<"a", "n", "y", "_", "t", "e", "r", "m">>)
    @@ ("borrower" :> <<"b", "o", "r", "r", "o", "w", "e", "r">>)
    @@ ("card" :> <<"c", "a", "r", "d">>)
    @@ ("phone" :> <<"p", "h", "o", "n", "e">>)
    @@ ("isbn" :> <<"i", "s", "b", "n">>)
    @@ ("title" :> <<"t", "i", "t", "l", "e">>)
    @@ ("author" :> <<"a", "u", "t", "h", "o", "r">>)
    @@ ("loan_id" :> <<"l", "o", "a", "n", "_", "i", "d">>)
    @@ ("loan_is" :> <<"l", "o", "a", "n", "_", "i", "s">>)
    @@ ("fine_is" :> <<"f", "i", "n", "e", "_", "i", "s">>)
    @@ ("due" :> <<"d", "u", "e">>)
    @@ ("available" :> <<"a", "v", "a", "i", "l", "a", "b", "l", "e">>)
    @@ ("sort" :> <<"s", "o", "r", "t">>)
    @@ ("order" :> <<"o", "r", "d", "e", "r">>)
    @@ ("limit" :> <<"l", "i", "m", "i", "t">>)
    @@ ("page" :> <<"p", "a", "g", "e">>)
    @@ ("KEYWORD_ALIASES" :> <<"K", "E", "Y", "W", "O", "R", "D", "_", "A", "L", "I", "A", "S", "E", "S">>)
    @@ ("VALUE_MAPPINGS" :> <<"V", "A", "L", "U", "E", "_", "M", "A", "P", "P", "I", "N", "G", "S">>)
    @@ ("of" :> <<"o", "f">>)
    @@ ("parse" :> <<"p", "a", "r", "s", "e">>)
    @@ ("_set_keyword_value" :> <<"_", "s", "e", "t", "_", "k", "e", "y", "w", "o", "r", "d", "_", "v", "a", "l", "u", "e">>)
    @@ ("has_filters" :> <<"h", "a", "s", "_", "f", "i", "l", "t", "e", "r", "s">>)
    @@ ("__init__" :> <<"_", "_", "i", "n", "i", "t", "_", "_">>)
    @@ ("__str__" :> <<"_", "_", "s", "t", "r", "_", "_">>)
    @@ ("__class__" :> <<"_", "_", "c", "l", "a", "s", "s", "_", "_">>)
    @@ ("__dict__" :> <<"_", "_", "d", "i", "c", "t", "_", "_">>)
    @@ ("__doc__" :> <<"_", "_", "d", "o", "c", "_", "_">>)

UPPERCASE == <<"A","B","C","D","E","F","G","H","I","J","K","L","M","N","O","P","Q","R","S","T","U","V","W","X","Y","Z">>
LOWERCASE == <<"a","b","c","d","e","f","g","h","i","j","k","l","m","n","o","p","q","r","s","t","u","v","w","x","y","z">>
DIGITS == <<"0","1","2","3","4","5","6","7","8","9">>

IndexIn(seq, c) == CHOOSE i \in DOMAIN seq : seq[i] = c
Occurs(seq, c) == \E i \in DOMAIN seq : seq[i] = c

\* str.lower() and str.upper()
lower(s) ==
    [i \in DOMAIN s |->
        IF Occurs(UPPERCASE, s[i]) THEN LOWERCASE[IndexIn(UPPERCASE, s[i])] ELSE s[i]]
upper(s) ==
    [i \in DOMAIN s |->
        IF Occurs(LOWERCASE, s[i]) THEN UPPERCASE[IndexIn(LOWERCASE, s[i])] ELSE s[i]]

None == [t |-> "None", s |-> <<>>, n |-> 0]
StrVal(s) == [t |-> "str", s |-> s, n |-> 0]
IntVal(n) == [t |-> "int", s |-> <<>>, n |-> n]
BoolVal(b) == [t |-> "bool", s |-> <<>>, n |-> IF b THEN 1 ELSE 0]
EnumVal(cls, member) == [t |-> cls, s |-> <<member>>, n |-> 0]
Method == [t |-> "method", s |-> <<>>, n |-> 0]
ClassVar == [t |-> "dict", s |-> <<>>, n |-> 0]

ASCENDING == EnumVal("OrderDirection", "ASCENDING")
DESCENDING == EnumVal("OrderDirection", "DESCENDING")
ACTIVE == EnumVal("LoanStatus", "ACTIVE")
RETURNED == EnumVal("LoanStatus", "RETURNED")
OWED == EnumVal("FineStatus", "OWED")
PAID == EnumVal("FineStatus", "PAID")
PAST == EnumVal("DueStatus", "PAST")
FUTURE == EnumVal("DueStatus", "FUTURE")

KEYWORD_ALIASES ==
       ("borrower" :> {<<"u", "s", "e", "r">>})
    @@ ("loan_is" :> {<<"l", "o", "a", "n", "_", "s", "t", "a", "t", "u", "s">>, <<"l", "o", "a", "n">>})
    @@ ("fine_is" :> {<<"f", "i", "n", "e", "_", "s", "t", "a", "t", "u", "s">>, <<"f", "i", "n", "e">>})
    @@ ("due" :> {<<"d", "u", "e", "_", "s", "t", "a", "t", "u", "s">>})
    @@ ("available" :> {<<"a", "v", "a", "i", "l", "a", "b", "i", "l", "i", "t", "y">>})
    @@ ("sort" :> {<<"s", "o", "r", "t", "_", "b", "y">>})
    @@ ("order" :> {<<"o", "r", "d", "e", "r", "_", "b", "y">>, <<"o", "r", "d", "e", "r", "_", "d", "i", "r", "e", "c", "t", "i", "o", "n">>})
    @@ ("limit" :> {<<"m", "a", "x">>, <<"c", "o", "u", "n", "t">>})
    @@ ("page" :> {<<"p", "a", "g", "e", "_", "n", "u", "m">>})

VALUE_MAPPINGS ==
       ("loan_is" :> (   (<<"a", "c", "t", "i", "v", "e">> :> ACTIVE)
                      @@ (<<"r", "e", "t", "u", "r", "n", "e", "d">> :> RETURNED)
                      @@ (<<"i", "n">> :> RETURNED)))
    @@ ("fine_is" :> (   (<<"o", "w", "e", "d">> :> OWED)
                      @@ (<<"p", "a", "i", "d">> :> PAID)))
    @@ ("due" :> (   (<<"p", "a", "s", "t">> :> PAST)
                  @@ (<<"f", "u", "t", "u", "r", "e">> :> FUTURE)))
    @@ ("available" :> (   (<<"t", "r", "u", "e">> :> BoolVal(TRUE))
                        @@ (<<"y", "e", "s">> :> BoolVal(TRUE))
                        @@ (<<"a", "v", "a", "i", "l", "a", "b", "l", "e">> :> BoolVal(TRUE))
                        @@ (<<"f", "a", "l", "s", "e">> :> BoolVal(FALSE))
                        @@ (<<"n", "o">> :> BoolVal(FALSE))
                        @@ (<<"u", "n", "a", "v", "a", "i", "l", "a", "b", "l", "e">> :> BoolVal(FALSE))
                        @@ (<<"c", "h", "e", "c", "k", "e", "d", "_", "o", "u", "t">> :> BoolVal(FALSE))))
    @@ ("order" :> (   (<<"a", "s", "c">> :> ASCENDING)
                    @@ (<<"a", "s", "c", "e", "n", "d", "i", "n", "g">> :> ASCENDING)
                    @@ (<<"d", "e", "s", "c">> :> DESCENDING)
                    @@ (<<"d", "e", "s", "c", "e", "n", "d", "i", "n", "g">> :> DESCENDING)))

\* The attributes hasattr() finds on a Query object: the fields set by
\* __init__, the class variables, the methods and the attributes of object.
QueryFields ==
    {"raw_query", "any_term", "borrower", "card", "phone", "isbn", "title",
     "author", "loan_id", "loan_is", "fine_is", "due", "available", "sort",
     "order", "limit", "page"}
QueryClassVars == {"KEYWORD_ALIASES", "VALUE_MAPPINGS"}
QueryMethods ==
    {"of", "parse", "_set_keyword_value", "has_filters", "__init__", "__str__"}
ObjectAttributes == {"__class__", "__dict__", "__doc__"}

\* Query.__init__(raw_query), before it parses
NewQuery(raw_query) ==
    [a \in QueryFields \cup QueryClassVars \cup QueryMethods \cup ObjectAttributes |->
        IF a = "raw_query" THEN StrVal(raw_query)
        ELSE IF a = "any_term" THEN StrVal(<<>>)
        ELSE IF a = "order" THEN ASCENDING
        ELSE IF a = "page" THEN IntVal(1)
        ELSE IF a \in QueryClassVars THEN ClassVar
        ELSE IF a \in QueryMethods THEN Method
        ELSE IF a = "__class__" THEN [t |-> "type", s |-> <<"Query">>, n |-> 0]
        ELSE IF a = "__dict__" THEN ClassVar
        ELSE None]

hasattr(q, name) == \E a \in DOMAIN q : Lit[a] = name
AttributeNamed(q, name) == CHOOSE a \in DOMAIN q : Lit[a] = name

Done(q) == [q |-> q, exc |-> "none"]
Raised(q, exc) == [q |-> q, exc |-> exc]

\* setattr(self, a, v): __class__ takes only a class, __dict__ only a dict
setattr(q, a, v) ==
    IF a = "__class__" /\ v.t # "type" THEN Raised(q, "TypeError")
    ELSE IF a = "__dict__" /\ v.t # "dict" THEN Raised(q, "TypeError")
    ELSE Done([q EXCEPT ![a] = v])

\* int(value): an optional sign and at least one digit
IsIntLiteral(s) ==
    LET body == IF s # <<>> /\ s[1] \in {"+", "-"} THEN Tail(s) ELSE s
    IN body # <<>> /\ \A i \in DOMAIN body : Occurs(DIGITS, body[i])

RECURSIVE NatOfDigits(_)
NatOfDigits(s) ==
    IF s = <<>> THEN 0
    ELSE 10 * NatOfDigits(SubSeq(s, 1, Len(s) - 1)) + (IndexIn(DIGITS, s[Len(s)]) - 1)

ParseInt(s) ==
    IF s[1] = "-" THEN 0 - NatOfDigits(Tail(s))
    ELSE IF s[1] = "+" THEN NatOfDigits(Tail(s))
    ELSE NatOfDigits(s)

\* str(n) of an integer
RECURSIVE FormatNat(_)
FormatNat(n) ==
    IF n < 10 THEN <<DIGITS[n + 1]>>
    ELSE FormatNat(n \div 10) \o <<DIGITS[(n % 10) + 1]>>

FormatInt(n) == IF n < 0 THEN <<"-">> \o FormatNat(0 - n) ELSE FormatNat(n)

\* The canonical field of a keyword: the field whose aliases hold it, else
\* the keyword itself
FieldName(keyword) ==
    IF \E f \in DOMAIN KEYWORD_ALIASES : keyword \in KEYWORD_ALIASES[f]
    THEN Lit[CHOOSE f \in DOMAIN KEYWORD_ALIASES : keyword \in KEYWORD_ALIASES[f]]
    ELSE keyword

\* Variant: enum and boolean values matched as written.
set_keyword_value_CaseSensitive(q, keyword, value) ==
    LET field_name == FieldName(keyword) IN
    IF ~hasattr(q, field_name) THEN Done(q)
    ELSE LET a == AttributeNamed(q, field_name) IN
         IF a = "page"
         THEN Done(IF IsIntLiteral(value)
                   THEN [q EXCEPT !["page"] = IntVal(ParseInt(value))] ELSE q)
         ELSE IF a = "limit"
         THEN Done(IF IsIntLiteral(value)
                   THEN [q EXCEPT !["limit"] = IntVal(ParseInt(value))] ELSE q)
         ELSE IF a \in DOMAIN VALUE_MAPPINGS /\ value \in DOMAIN VALUE_MAPPINGS[a]
         THEN setattr(q, a, VALUE_MAPPINGS[a][value])
         ELSE setattr(q, a, StrVal(value))

\* Query._set_keyword_value(keyword, value)
set_keyword_value(q, keyword, value) ==
    LET field_name == FieldName(keyword) IN
    IF ~hasattr(q, field_name) THEN Done(q)
    ELSE LET a == AttributeNamed(q, field_name) IN
         IF a = "page"
         THEN Done(IF IsIntLiteral(value)
                   THEN [q EXCEPT !["page"] = IntVal(ParseInt(value))] ELSE q)
         ELSE IF a = "limit"
         THEN Done(IF IsIntLiteral(value)
                   THEN [q EXCEPT !["limit"] = IntVal(ParseInt(value))] ELSE q)
         ELSE IF a \in DOMAIN VALUE_MAPPINGS /\ lower(value) \in DOMAIN VALUE_MAPPINGS[a]
         THEN setattr(q, a, VALUE_MAPPINGS[a][lower(value)])
         ELSE setattr(q, a, StrVal(value))

\* The first loop of parse: the query split at white space outside quotes
RECURSIVE SplitParts(_, _, _, _, _)
SplitParts(s, i, parts, current, in_quotes) ==
    IF i > Len(s)
    THEN IF current # <<>> THEN Append(parts, current) ELSE parts
    ELSE IF s[i] = "\"" /\ (current = <<>> \/ current[Len(current)] # "\\")
    THEN SplitParts(s, i + 1, parts, Append(current, s[i]), ~in_quotes)
    ELSE IF s[i] = " " /\ ~in_quotes
    THEN SplitParts(s, i + 1,
                    IF current # <<>> THEN Append(parts, current) ELSE parts,
                    <<>>, in_quotes)
    ELSE SplitParts(s, i + 1, parts, Append(current, s[i]), in_quotes)

\* part.split(":", 1)
KeywordOfPart(part) == SubSeq(part, 1, IndexIn(part, ":") - 1)
ValueOfPart(part) == SubSeq(part, IndexIn(part, ":") + 1, Len(part))

\* value[1:-1] when the value starts and ends with a quote
Unquote(value) ==
    IF Len(value) > 1 /\ value[1] = "\"" /\ value[Len(value)] = "\""
    THEN SubSeq(value, 2, Len(value) - 1)
    ELSE value

\* " ".join(any_terms)
RECURSIVE JoinTerms(_)
JoinTerms(terms) ==
    IF terms = <<>> THEN <<>>
    ELSE IF Len(terms) = 1 THEN terms[1]
    ELSE terms[1] \o <<" ">> \o JoinTerms(Tail(terms))

\* The second loop of parse, from part i on
RECURSIVE ParseParts(_, _, _, _)
ParseParts(q, parts, i, any_terms) ==
    IF i > Len(parts)
    THEN Done(IF any_terms # <<>>
              THEN [q EXCEPT !["any_term"] = StrVal(JoinTerms(any_terms))]
              ELSE q)
    ELSE IF Occurs(parts[i], ":")
    THEN IF q["_set_keyword_value"].t # "method"
         THEN Raised(q, "TypeError")
         ELSE LET r == set_keyword_value(q, lower(KeywordOfPart(parts[i])),
                                         Unquote(ValueOfPart(parts[i])))
              IN IF r.exc # "none" THEN r
                 ELSE ParseParts(r.q, parts, i + 1, any_terms)
    ELSE ParseParts(q, parts, i + 1, Append(any_terms, parts[i]))

\* Query.parse()
parse(q) ==
    IF q["raw_query"].s = <<>> THEN Done(q)
    ELSE ParseParts(q, SplitParts(q["raw_query"].s, 1, <<>>, <<>>, FALSE), 1, <<>>)

\* Query.of(query_string): cls(raw_query=query_string).parse(); __init__
\* parses when raw_query is not empty
of(query_string) ==
    LET made == IF query_string # <<>> THEN parse(NewQuery(query_string))
                ELSE Done(NewQuery(query_string))
    IN IF made.exc # "none" THEN made
       ELSE IF made.q["parse"].t # "method" THEN Raised(made.q, "TypeError")
       ELSE parse(made.q)

\* The call Query.of(query_string)
Query_of(query_string) ==
    /\ LET r == of(query_string) IN
       result' = IF r.exc = "none"
                 THEN Return("Query.of", <<query_string>>, <<r.q>>)
                 ELSE Raise("Query.of", <<query_string>>, r.exc, "type_error")
    /\ UNCHANGED <<BORROWER, BOOK, BOOK_LOANS, FINES, today, Ssn, calls>>

----------------------------------------------------------------------------
(* The search operations of src/backend/api.py.  BORROWER's name,           *)
(* address and phone columns are not stored here: the queries searched      *)
(* leave the borrower and phone filters unset, carry free text only for the *)
(* book searches and do not sort by those columns.  The text of an isbn or  *)
(* a card_id is the numeral of its number.                                  *)

\* if query.f: None, "", 0 and False are false
Truthy(v) ==
    /\ v.t # "None"
    /\ ~(v.t = "str" /\ v.s = <<>>)
    /\ ~(v.t \in {"int", "bool"} /\ v.n = 0)

\* column LIKE '%pattern%' under the case-insensitive collation; NULL (the
\* empty text here) matches nothing
Like(text, pattern) ==
    \E i \in 1..(Len(text) - Len(pattern) + 1) :
       lower(SubSeq(text, i, i + Len(pattern) - 1)) = lower(pattern)

\* The order of texts under ORDER BY: character by character, letters
\* without regard to case
COLLATION == <<"\t", " ", "\"", "+", "-">> \o DIGITS \o <<":", "_">> \o LOWERCASE
KeyOfStr(s) == [i \in DOMAIN s |-> IndexIn(COLLATION, lower(s)[i])]
KeyOfInt(n) == <<n>>

\* The sequences that list every element of S once
Perms(S) ==
    {p \in [1..Cardinality(S) -> S] : \A x \in S : \E i \in DOMAIN p : p[i] = x}

\* ORDER BY key ASC | DESC; rows with equal keys come in any order
Ordered(p, key, direction) ==
    \A i \in 1..(Len(p) - 1) :
       IF direction = "DESC"
       THEN ~StrLess(key[p[i]], key[p[i + 1]])
       ELSE ~StrLess(key[p[i + 1]], key[p[i]])

SortedLists(items, key, direction) ==
    {p \in Perms(items) : Ordered(p, key, direction)}

\* direction = "DESC" if query.order == OrderDirection.DESCENDING else "ASC"
DirectionOf(query) == IF query["order"] = DESCENDING THEN "DESC" ELSE "ASC"

\* LIMIT %s OFFSET %s with offset = (query.page - 1) * query.limit
OffsetOf(query) == (query["page"].n - 1) * query["limit"].n

Paginate(query, rows) ==
    IF query["limit"].t = "None" THEN rows
    ELSE IF OffsetOf(query) >= Len(rows) \/ query["limit"].n = 0 THEN <<>>
    ELSE SubSeq(rows, OffsetOf(query) + 1,
                IF OffsetOf(query) + query["limit"].n < Len(rows)
                THEN OffsetOf(query) + query["limit"].n ELSE Len(rows))

\* MySQL rejects a negative LIMIT or OFFSET
BadWindow(query) ==
    query["limit"].t # "None" /\ (query["limit"].n < 0 \/ OffsetOf(query) < 0)

\* Results(items, total, page_limit, current_page) for one of the orders the
\* database may return the rows in
Respond(op, args, query, lists, total) ==
    /\ IF BadWindow(query)
       THEN result' = Raise(op, args, "ProgrammingError", "sql_syntax")
       ELSE \E rows \in lists :
               result' = Return(op, args,
                                <<[items        |-> Paginate(query, rows),
                                   total        |-> total,
                                   page_limit   |-> query["limit"],
                                   current_page |-> query["page"].n]>>)
    /\ UNCHANGED <<BORROWER, BOOK, BOOK_LOANS, FINES, today, Ssn, calls, Title,
                   BOOK_AUTHORS>>

\* AUTHORS.name of the authors in the catalogue, and BOOK.title of its books
AuthorNames == {<<"A", "b">>, <<"z", "z">>}
Titles == {<<"x">>, <<"A", "b">>}

NoName == <<>>         \* A.name of a book without authors in the LEFT JOIN
NoLoan == 0            \* BL.loan_id of a book without active loan in the LEFT JOIN
SEPARATOR == "\t"      \* stands for the separator U+001F of GROUP_CONCAT

NamesOf(isbn) == {a.name : a \in {x \in BOOK_AUTHORS : x.isbn = isbn}}

\* BOOK B LEFT JOIN BOOK_AUTHORS BA LEFT JOIN AUTHORS A
BookJoin ==
    {[isbn |-> b, name |-> n] : b \in BOOK, n \in AuthorNames \cup {NoName}}
    \cap {r \in [isbn : BOOK, name : AuthorNames \cup {NoName}] :
             IF NamesOf(r.isbn) = {} THEN r.name = NoName ELSE r.name \in NamesOf(r.isbn)}

\* The WHERE clauses on isbn, title, author and free text, on the columns of
\* book isbn and author name
BookWhere(query, isbn, name) ==
    /\ Truthy(query["isbn"]) => Like(FormatNat(isbn), query["isbn"].s)
    /\ Truthy(query["title"]) => Like(Title[isbn], query["title"].s)
    /\ Truthy(query["author"]) => Like(name, query["author"].s)

BookFreeText(query, isbn, name) ==
    Truthy(query["any_term"]) =>
       \/ Like(Title[isbn], query["any_term"].s)
       \/ Like(FormatNat(isbn), query["any_term"].s)
       \/ Like(name, query["any_term"].s)

\* GROUP_CONCAT(DISTINCT A.name SEPARATOR ...) of the rows of a group, in
\* one of the orders the database may concatenate them in
RECURSIVE JoinNames(_)
JoinNames(names) ==
    IF names = <<>> THEN <<>>
    ELSE IF Len(names) = 1 THEN names[1]
    ELSE names[1] \o <<SEPARATOR>> \o JoinNames(Tail(names))

\* Book(isbn, title, authors) for each group, the authors of each in some order
BookChoices(groups, names) ==
    {c \in [groups -> UNION {Perms(names[g]) : g \in groups}] :
        \A g \in groups : c[g] \in Perms(names[g])}

BookOf(isbn, authors) == [isbn |-> isbn, title |-> Title[isbn], authors |-> authors]

\* ORDER BY of the book searches: isbn, title, author, else title
BookSortKey(sort_field, book) ==
    IF sort_field = <<"i", "s", "b", "n">> THEN KeyOfStr(FormatNat(book.isbn))
    ELSE IF sort_field = <<"t", "i", "t", "l", "e">> THEN KeyOfStr(book.title)
    ELSE IF sort_field = <<"a", "u", "t", "h", "o", "r">> THEN KeyOfStr(JoinNames(book.authors))
    ELSE KeyOfStr(book.title)

search_books(query) ==
    LET rows   == {r \in BookJoin : /\ BookWhere(query, r.isbn, r.name)
                                    /\ BookFreeText(query, r.isbn, r.name)}
        groups == {r.isbn : r \in rows}
        names == [g \in groups |-> {r.name : r \in {x \in rows : x.isbn = g}} \ {NoName}]
        key(b) == BookSortKey(IF Truthy(query["sort"]) THEN lower(query["sort"].s)
                              ELSE <<"t", "i", "t", "l", "e">>, b)
        direction == IF Truthy(query["sort"]) THEN DirectionOf(query) ELSE "ASC"
        items(c) == {BookOf(g, c[g]) : g \in groups}
        lists  == UNION {SortedLists(items(c), [b \in items(c) |-> key(b)], direction)
                         : c \in BookChoices(groups, names)}
    IN Respond("search_books", <<query>>, query, lists, Cardinality(groups))

\* ... LEFT JOIN (SELECT * FROM BOOK_LOANS WHERE date_in IS NULL) AS BL
BookLoanJoin ==
    {[isbn |-> r.isbn, name |-> r.name, loan_id |-> l] :
        r \in BookJoin, l \in LoanIds \cup {NoLoan}}
    \cap {r \in [isbn : BOOK, name : AuthorNames \cup {NoName},
                 loan_id : LoanIds \cup {NoLoan}] :
             IF ActiveLoansOfBook(r.isbn) = {} THEN r.loan_id = NoLoan
             ELSE r.loan_id \in ActiveLoansOfBook(r.isbn)}

\* (BL.loan_id IS NULL OR BL.date_in IS NOT NULL) when available, else
\* (BL.loan_id IS NOT NULL AND BL.date_in IS NULL)
AvailableWhere(query, loan_id) ==
    query["available"].t # "None" =>
       IF Truthy(query["available"]) THEN loan_id = NoLoan ELSE loan_id # NoLoan

NoLoanView == [loan_id |-> NoLoan]

search_books_with_loan(query) ==
    LET rows   == {r \in BookLoanJoin : /\ BookWhere(query, r.isbn, r.name)
                                        /\ BookFreeText(query, r.isbn, r.name)
                                        /\ AvailableWhere(query, r.loan_id)}
        groups == {<<r.isbn, r.loan_id>> : r \in rows}
        names == [g \in groups |-> {r.name : r \in {x \in rows : <<x.isbn, x.loan_id>> = g}} \ {NoName}]
        item(g, authors) ==
            [book |-> BookOf(g[1], authors),
             loan |-> IF g[2] = NoLoan THEN NoLoanView
                      ELSE LoanView(BOOK_LOANS, FINES, g[2])]
        key(x) == BookSortKey(IF Truthy(query["sort"]) THEN lower(query["sort"].s)
                              ELSE <<"t", "i", "t", "l", "e">>, x.book)
        direction == IF Truthy(query["sort"]) THEN DirectionOf(query) ELSE "ASC"
        items(c) == {item(g, c[g]) : g \in groups}
        lists  == UNION {SortedLists(items(c), [x \in items(c) |-> key(x)], direction)
                         : c \in BookChoices(groups, names)}
    IN Respond("search_books_with_loan", <<query>>, query, lists,
               Cardinality({r.isbn : r \in rows}))

\* BL.loan_id = %s with a text parameter: compared as numbers
LoanIdIs(loan_id, text) ==
    IF IsIntLiteral(text) THEN loan_id = ParseInt(text) ELSE loan_id = 0

\* The WHERE clauses of the loan searches on loan_id, isbn, card, loan_is,
\* due and fine_is, over BOOK_LOANS BL LEFT JOIN FINES F
LoanWhere(query, loan_id) ==
    LET BL == BOOK_LOANS[loan_id]
        F  == FineRowsOf(loan_id)
    IN /\ Truthy(query["loan_id"]) => LoanIdIs(loan_id, query["loan_id"].s)
       /\ Truthy(query["isbn"]) => Like(FormatNat(BL.isbn), query["isbn"].s)
       /\ Truthy(query["card"]) => Like(FormatNat(BL.card_id), query["card"].s)
       /\ query["loan_is"] = ACTIVE => BL.date_in = NULL
       /\ query["loan_is"] = RETURNED => BL.date_in # NULL
       /\ query["due"] = PAST => (BL.due_date < today /\ BL.date_in = NULL)
       /\ query["due"] = FUTURE => BL.due_date >= today
       /\ query["fine_is"] = OWED => \E f \in F : f.fine_amt > 0 /\ f.paid = FALSE
       /\ query["fine_is"] = PAID => \E f \in F : f.paid = TRUE

\* ORDER BY of the loan searches: loan_id, isbn, card_id or card, date_out,
\* due_date, date_in, fine_amt, else loan_id
LoanSortKey(sort_field, loan) ==
    IF sort_field = <<"l", "o", "a", "n", "_", "i", "d">> THEN KeyOfInt(loan.loan_id)
    ELSE IF sort_field = <<"i", "s", "b", "n">> THEN KeyOfStr(FormatNat(loan.isbn))
    ELSE IF sort_field \in {<<"c", "a", "r", "d", "_", "i", "d">>, <<"c", "a", "r", "d">>}
         THEN KeyOfStr(FormatNat(loan.card_id))
    ELSE IF sort_field = <<"d", "a", "t", "e", "_", "o", "u", "t">> THEN KeyOfInt(loan.date_out)
    ELSE IF sort_field = <<"d", "u", "e", "_", "d", "a", "t", "e">> THEN KeyOfInt(loan.due_date)
    ELSE IF sort_field = <<"d", "a", "t", "e", "_", "i", "n">> THEN KeyOfInt(loan.date_in)
    ELSE IF sort_field = <<"f", "i", "n", "e", "_", "a", "m", "t">> THEN KeyOfInt(loan.fine_amt)
    ELSE KeyOfInt(loan.loan_id)

search_loans(query) ==
    LET rows  == {i \in LoanIds : LoanWhere(query, i)}
        key(l) == LoanSortKey(IF Truthy(query["sort"]) THEN lower(query["sort"].s)
                              ELSE <<"l", "o", "a", "n", "_", "i", "d">>, l)
        direction == IF Truthy(query["sort"]) THEN DirectionOf(query) ELSE "DESC"
        items == {LoanView(BOOK_LOANS, FINES, i) : i \in rows}
        lists == SortedLists(items, [l \in items |-> key(l)], direction)
    IN Respond("search_loans", <<query>>, query, lists, Cardinality(rows))

\* BOOK_LOANS BL JOIN BOOK B LEFT JOIN BOOK_AUTHORS BA LEFT JOIN AUTHORS A
LoanBookJoin ==
    {r \in [loan_id : LoanIds, name : AuthorNames \cup {NoName}] :
        /\ BOOK_LOANS[r.loan_id].isbn \in BOOK
        /\ [isbn |-> BOOK_LOANS[r.loan_id].isbn, name |-> r.name] \in BookJoin}

search_loans_with_book(query) ==
    LET rows   == {r \in LoanBookJoin :
                      /\ LoanWhere(query, r.loan_id)
                      /\ Truthy(query["title"]) =>
                            Like(Title[BOOK_LOANS[r.loan_id].isbn], query["title"].s)
                      /\ Truthy(query["author"]) => Like(r.name, query["author"].s)}
        groups == {r.loan_id : r \in rows}
        names == [g \in groups |-> {r.name : r \in {x \in rows : x.loan_id = g}} \ {NoName}]
        item(g, authors) ==
            [loan |-> LoanView(BOOK_LOANS, FINES, g),
             book |-> BookOf(BOOK_LOANS[g].isbn, authors)]
        sort_field == IF Truthy(query["sort"]) THEN lower(query["sort"].s)
                      ELSE <<"l", "o", "a", "n", "_", "i", "d">>
        key(x) == IF sort_field = <<"t", "i", "t", "l", "e">> THEN KeyOfStr(x.book.title)
                  ELSE LoanSortKey(sort_field, x.loan)
        direction == IF Truthy(query["sort"]) THEN DirectionOf(query) ELSE "DESC"
        items(c) == {item(g, c[g]) : g \in groups}
        lists  == UNION {SortedLists(items(c), [x \in items(c) |-> key(x)], direction)
                         : c \in BookChoices(groups, names)}
    IN Respond("search_loans_with_book", <<query>>, query, lists, Cardinality(rows))

BorrowerOf(card_id) == [card_id |-> card_id, ssn |-> Ssn[card_id]]

search_borrowers(query) ==
    LET rows  == {b \in BORROWER :
                     Truthy(query["card"]) => Like(FormatNat(b), query["card"].s)}
        key(b) == KeyOfStr(FormatNat(b.card_id))
        direction == IF Truthy(query["sort"]) THEN DirectionOf(query) ELSE "ASC"
        items == {BorrowerOf(b) : b \in rows}
        lists == SortedLists(items, [b \in items |-> key(b)], direction)
    IN Respond("search_borrowers", <<query>>, query, lists, Cardinality(rows))

\* BORROWER B LEFT JOIN BOOK_LOANS BL LEFT JOIN FINES F
BorrowerFineJoin ==
    {r \in [card_id : BORROWER, loan_id : LoanIds \cup {NoLoan}] :
        LET loans == {i \in LoanIds : BOOK_LOANS[i].card_id = r.card_id}
        IN IF loans = {} THEN r.loan_id = NoLoan ELSE r.loan_id \in loans}

\* COALESCE(SUM(CASE WHEN F.paid = FALSE THEN F.fine_amt ELSE 0 END), 0)
TotalFines(loan_ids) ==
    SumFines({f \in FINES : f.loan_id \in loan_ids /\ f.paid = FALSE})

search_borrowers_with_fines(card_id, query) ==
    LET rows   == {r \in BorrowerFineJoin :
                      /\ card_id # <<>> => FormatNat(r.card_id) = card_id
                      /\ (Truthy(query["card"]) /\ card_id = <<>>) =>
                            Like(FormatNat(r.card_id), query["card"].s)
                      /\ query["fine_is"] = OWED =>
                            \E f \in FineRowsOf(r.loan_id) :
                               f.paid = FALSE /\ f.fine_amt > 0
                      /\ query["fine_is"] = PAID =>
                            \E f \in FineRowsOf(r.loan_id) : f.paid = TRUE}
        groups == {r.card_id : r \in rows}
        item(g) == [borrower    |-> BorrowerOf(g),
                    total_fines |-> TotalFines({r.loan_id : r \in {x \in rows : x.card_id = g}})]
        sort_field == IF Truthy(query["sort"]) THEN lower(query["sort"].s)
                      ELSE <<"c", "a", "r", "d", "_", "i", "d">>
        key(x) == IF sort_field \in {<<"f", "i", "n", "e", "_", "a", "m", "t">>, <<"f", "i", "n", "e", "s">>}
                  THEN KeyOfInt(x.total_fines)
                  ELSE KeyOfStr(FormatNat(x.borrower.card_id))
        direction == IF Truthy(query["sort"]) THEN DirectionOf(query) ELSE "ASC"
        items  == {item(g) : g \in groups}
        lists  == SortedLists(items, [x \in items |-> key(x)], direction)
    IN Respond("search_borrowers_with_fines", <<card_id, query>>, query, lists,
               Cardinality(groups))

----------------------------------------------------------------------------
(* The HTTP boundary of checkout and checkin (views.checkout_loan,          *)
(* views.checkin_loan): the status code answered for the outcome r of the   *)
(* call.                                                                    *)

HTTP_OK == 200
HTTP_BAD_REQUEST == 400
HTTP_SERVER_ERROR == 500

\* except ValidationError: status=400; except Exception: status=500
LoanEndpointStatus(r) ==
    IF r.exc = "none" THEN HTTP_OK
    ELSE IF r.exc = "ValidationError" THEN HTTP_BAD_REQUEST
    ELSE HTTP_SERVER_ERROR

----------------------------------------------------------------------------
(* update_fines, pay_loan_fine and pay_borrower_fines, statement by         *)
(* statement, in request handler h.  Outside transaction.atomic() each      *)
(* statement commits by itself.  Inside it the rows a handler has written   *)
(* stay locked until the block is left: calls[h].undo holds their images    *)
(* from before the write, a write of a row locked by another handler waits, *)
(* and a SELECT reads committed rows.  Rows an UPDATE finds but does not    *)
(* change are not kept locked.                                              *)

HeldBy(h) == {u.loan_id : u \in calls[h].undo}

LockedByOther(h, loan_ids) ==
    \E g \in Handlers \ {h} : HeldBy(g) \cap loan_ids # {}

\* The image of the FINES row of a loan before it is written
BeforeImage(loan_id) ==
    IF FineRowsOf(loan_id) = {}
    THEN [loan_id |-> loan_id, had |-> FALSE, fine_amt |-> 0, paid |-> FALSE]
    ELSE LET f == CHOOSE x \in FineRowsOf(loan_id) : TRUE
         IN [loan_id |-> loan_id, had |-> TRUE, fine_amt |-> f.fine_amt,
             paid |-> f.paid]

RowOf(u) == [loan_id |-> u.loan_id, fine_amt |-> u.fine_amt, paid |-> u.paid]

\* FINES with the writes of handler h undone
RolledBack(h) ==
    {f \in FINES : f.loan_id \notin HeldBy(h)}
    \cup {RowOf(u) : u \in {v \in calls[h].undo : v.had}}

\* FINES as the other transactions have committed it
CommittedFines ==
    {f \in FINES : \A h \in Handlers : f.loan_id \notin HeldBy(h)}
    \cup UNION {{RowOf(u) : u \in {v \in calls[h].undo : v.had}} : h \in Handlers}

\* Leaving transaction.atomic(): commit, or rollback when an exception leaves it
FinishTx(h, exc, msg, ret) ==
    calls' = [calls EXCEPT ![h].pc = "done", ![h].exc = exc, ![h].msg = msg,
                           ![h].ret = ret, ![h].undo = {}]

BeginUpdateFines(h, current_date) ==
    /\ calls[h].pc = "idle"
    /\ calls' = [calls EXCEPT ![h] = [Idle EXCEPT !.op = "update_fines",
                                                 !.args = <<current_date>>,
                                                 !.pc = "overdue"]]
    /\ UNCHANGED <<BORROWER, Ssn, BOOK, BOOK_LOANS, FINES, today, result>>

\* SELECT loan_id, due_date, date_in FROM BOOK_LOANS WHERE due_date < %s AND
\* (date_in IS NULL OR date_in > due_date), its rows in the order the
\* database returns them
UpdateFinesOverdue(h) ==
    /\ calls[h].op = "update_fines" /\ calls[h].pc = "overdue"
    /\ \E rows \in Perms(Overdue(calls[h].args[1])) :
          calls' = [calls EXCEPT ![h].todo = rows,
                                 ![h].pc = IF rows = <<>> THEN "commit" ELSE "exists"]
    /\ UNCHANGED <<BORROWER, Ssn, BOOK, BOOK_LOANS, FINES, today, result>>

\* Where the loop goes after the row at the head of todo
AfterRow(h) == IF Len(calls[h].todo) = 1 THEN "commit" ELSE "exists"

\* SELECT loan_id FROM FINES WHERE loan_id = %s: the row as committed now, or
\* as committed when the transaction first read, by the isolation level
UpdateFinesExists(h) ==
    /\ calls[h].op = "update_fines" /\ calls[h].pc = "exists"
    /\ LET now  == {f.loan_id : f \in CommittedFines}
           snap == IF calls[h].snap = <<>> THEN now ELSE calls[h].snap[1]
       IN \E view \in {now, snap} :
             calls' = [calls EXCEPT
                          ![h].snap = <<snap>>,
                          ![h].pc = IF Head(calls[h].todo) \in view THEN "update"
                                    ELSE "insert"]
    /\ UNCHANGED <<BORROWER, Ssn, BOOK, BOOK_LOANS, FINES, today, result>>

\* Variant: the UPDATE without its paid = FALSE filter.
UpdateFinesUpdate_AnyRow(h) ==
    /\ calls[h].op = "update_fines" /\ calls[h].pc = "update"
    /\ LET loan_id == Head(calls[h].todo)
       IN /\ ~LockedByOther(h, {loan_id})
          /\ FINES' = {IF f.loan_id = loan_id
                       THEN [f EXCEPT !.fine_amt =
                                FineAmt(BOOK_LOANS[loan_id], calls[h].args[1])]
                       ELSE f : f \in FINES}
          /\ calls' = [calls EXCEPT ![h].undo = @ \cup {BeforeImage(loan_id)},
                                    ![h].todo = Tail(@),
                                    ![h].pc = AfterRow(h)]
    /\ UNCHANGED <<BORROWER, Ssn, BOOK, BOOK_LOANS, today, result>>

\* UPDATE FINES SET fine_amt = %s WHERE loan_id = %s AND paid = FALSE
UpdateFinesUpdate(h) ==
    /\ calls[h].op = "update_fines" /\ calls[h].pc = "update"
    /\ LET loan_id == Head(calls[h].todo)
           hit     == {f \in FineRowsOf(loan_id) : f.paid = FALSE}
       IN /\ ~LockedByOther(h, {loan_id})
          /\ FINES' = {IF f \in hit
                       THEN [f EXCEPT !.fine_amt =
                                FineAmt(BOOK_LOANS[loan_id], calls[h].args[1])]
                       ELSE f : f \in FINES}
          /\ calls' = [calls EXCEPT
                          ![h].undo = IF hit = {} THEN @ ELSE @ \cup {BeforeImage(loan_id)},
                          ![h].todo = Tail(@),
                          ![h].pc = AfterRow(h)]
    /\ UNCHANGED <<BORROWER, Ssn, BOOK, BOOK_LOANS, today, result>>

\* INSERT INTO FINES (loan_id, fine_amt, paid) VALUES (%s, %s, FALSE); loan_id
\* is the primary key, and the IntegrityError leaves the atomic block
UpdateFinesInsert(h) ==
    /\ calls[h].op = "update_fines" /\ calls[h].pc = "insert"
    /\ LET loan_id == Head(calls[h].todo)
       IN /\ ~LockedByOther(h, {loan_id})
          /\ IF FineRowsOf(loan_id) # {}
             THEN /\ FINES' = RolledBack(h)
                  /\ FinishTx(h, "IntegrityError", "duplicate_key", <<>>)
             ELSE /\ FINES' = FINES \cup
                              {[loan_id |-> loan_id,
                                fine_amt |-> FineAmt(BOOK_LOANS[loan_id],
                                                     calls[h].args[1]),
                                paid |-> FALSE]}
                  /\ calls' = [calls EXCEPT
                                  ![h].undo = @ \cup {BeforeImage(loan_id)},
                                  ![h].todo = Tail(@),
                                  ![h].pc = AfterRow(h)]
    /\ UNCHANGED <<BORROWER, Ssn, BOOK, BOOK_LOANS, today, result>>

\* The loop is over and the atomic block commits
UpdateFinesCommit(h) ==
    /\ calls[h].op = "update_fines" /\ calls[h].pc = "commit"
    /\ FinishTx(h, "none", "ok", <<>>)
    /\ UNCHANGED <<BORROWER, Ssn, BOOK, BOOK_LOANS, FINES, today, result>>

BeginPayLoanFine(h, loan_id) ==
    /\ calls[h].pc = "idle"
    /\ calls' = [calls EXCEPT ![h] = [Idle EXCEPT !.op = "pay_loan_fine",
                                                 !.args = <<loan_id>>,
                                                 !.pc = "loan"]]
    /\ UNCHANGED <<BORROWER, Ssn, BOOK, BOOK_LOANS, FINES, today, result>>

\* SELECT COUNT(*) FROM BOOK_LOANS WHERE loan_id = %s
PayLoanFineLoan(h) ==
    /\ calls[h].op = "pay_loan_fine" /\ calls[h].pc = "loan"
    /\ IF calls[h].args[1] \notin LoanIds
       THEN Finish(h, "ObjectDoesNotExist", "loan_missing", <<>>)
       ELSE calls' = [calls EXCEPT ![h].pc = "pay"]
    /\ UNCHANGED <<BORROWER, Ssn, BOOK, BOOK_LOANS, FINES, today, result>>

\* UPDATE FINES SET paid = TRUE WHERE loan_id = %s
PayLoanFineUpdate(h) ==
    /\ calls[h].op = "pay_loan_fine" /\ calls[h].pc = "pay"
    /\ LET loan_id == calls[h].args[1]
       IN /\ ~LockedByOther(h, {loan_id})
          /\ FINES' = {IF f.loan_id = loan_id THEN [f EXCEPT !.paid = TRUE] ELSE f
                       : f \in FINES}
          /\ calls' = [calls EXCEPT
                          ![h].undo = IF FineRowsOf(loan_id) = {} THEN @
                                      ELSE @ \cup {BeforeImage(loan_id)},
                          ![h].pc = "read"]
    /\ UNCHANGED <<BORROWER, Ssn, BOOK, BOOK_LOANS, today, result>>

\* SELECT ... FROM BOOK_LOANS BL LEFT JOIN FINES F ... WHERE BL.loan_id = %s;
\* return Loan(...) leaves the atomic block
PayLoanFineRead(h) ==
    /\ calls[h].op = "pay_loan_fine" /\ calls[h].pc = "read"
    /\ FinishTx(h, "none", "ok", <<LoanView(BOOK_LOANS, FINES, calls[h].args[1])>>)
    /\ UNCHANGED <<BORROWER, Ssn, BOOK, BOOK_LOANS, FINES, today, result>>

BeginPayBorrowerFines(h, card_id) ==
    /\ calls[h].pc = "idle"
    /\ calls' = [calls EXCEPT ![h] = [Idle EXCEPT !.op = "pay_borrower_fines",
                                                 !.args = <<card_id>>,
                                                 !.pc = "borrower"]]
    /\ UNCHANGED <<BORROWER, Ssn, BOOK, BOOK_LOANS, FINES, today, result>>

\* SELECT COUNT(*) FROM BORROWER WHERE card_id = %s
PayBorrowerFinesBorrower(h) ==
    /\ calls[h].op = "pay_borrower_fines" /\ calls[h].pc = "borrower"
    /\ IF calls[h].args[1] \notin BORROWER
       THEN Finish(h, "ObjectDoesNotExist", "borrower_missing", <<>>)
       ELSE calls' = [calls EXCEPT ![h].pc = "loans"]
    /\ UNCHANGED <<BORROWER, Ssn, BOOK, BOOK_LOANS, FINES, today, result>>

\* SELECT BL.loan_id ... WHERE BL.card_id = %s AND F.paid = FALSE AND
\* F.fine_amt > 0; if not loan_ids: return []
PayBorrowerFinesLoans(h) ==
    /\ calls[h].op = "pay_borrower_fines" /\ calls[h].pc = "loans"
    /\ LET loan_ids == {f.loan_id : f \in {x \in CommittedFines :
                           /\ BOOK_LOANS[x.loan_id].card_id = calls[h].args[1]
                           /\ x.paid = FALSE
                           /\ x.fine_amt > 0}}
       IN IF loan_ids = {}
          THEN Finish(h, "none", "ok", <<>>)
          ELSE \E rows \in Perms(loan_ids) :
                  calls' = [calls EXCEPT ![h].todo = rows, ![h].pc = "pay"]
    /\ UNCHANGED <<BORROWER, Ssn, BOOK, BOOK_LOANS, FINES, today, result>>

\* The loans a sequence of loan ids names
Range(s) == {s[i] : i \in DOMAIN s}

\* UPDATE FINES SET paid = TRUE WHERE loan_id IN (...): one statement, which
\* has all its rows or waits
PayBorrowerFinesUpdate(h) ==
    /\ calls[h].op = "pay_borrower_fines" /\ calls[h].pc = "pay"
    /\ LET loan_ids == Range(calls[h].todo)
       IN /\ ~LockedByOther(h, loan_ids)
          /\ FINES' = {IF f.loan_id \in loan_ids THEN [f EXCEPT !.paid = TRUE] ELSE f
                       : f \in FINES}
          /\ calls' = [calls EXCEPT
                          ![h].undo = @ \cup {BeforeImage(f.loan_id) :
                                                 f \in {x \in FINES : x.loan_id \in loan_ids}},
                          ![h].pc = "read"]
    /\ UNCHANGED <<BORROWER, Ssn, BOOK, BOOK_LOANS, today, result>>

\* SELECT ... FROM BOOK_LOANS BL JOIN FINES F ... WHERE BL.loan_id IN (...);
\* return updated_loans leaves the atomic block
PayBorrowerFinesRead(h) ==
    /\ calls[h].op = "pay_borrower_fines" /\ calls[h].pc = "read"
    /\ FinishTx(h, "none", "ok",
                <<{LoanView(BOOK_LOANS, FINES, f.loan_id) :
                      f \in {x \in FINES : x.loan_id \in Range(calls[h].todo)}}>>)
    /\ UNCHANGED <<BORROWER, Ssn, BOOK, BOOK_LOANS, FINES, today, result>>

\* The rows the next statement of handler h writes
Wants(h) ==
    IF calls[h].op = "update_fines" /\ calls[h].pc \in {"update", "insert"}
    THEN {Head(calls[h].todo)}
    ELSE IF calls[h].op = "pay_loan_fine" /\ calls[h].pc = "pay"
    THEN {calls[h].args[1]}
    ELSE IF calls[h].op = "pay_borrower_fines" /\ calls[h].pc = "pay"
    THEN Range(calls[h].todo)
    ELSE {}

WaitsFor(h) == {g \in Handlers \ {h} : HeldBy(g) \cap Wants(h) # {}}

RECURSIVE WaitChain(_, _)
WaitChain(hs, n) ==
    IF n = 0 THEN hs
    ELSE WaitChain(hs \cup UNION {WaitsFor(g) : g \in hs}, n - 1)

\* Transactions that wait for each other: the database ends one of them with
\* an OperationalError, which leaves its atomic block
Deadlock(h) ==
    /\ calls[h].pc \notin {"idle", "done"}
    /\ h \in WaitChain(WaitsFor(h), NumHandlers)
    /\ FINES' = RolledBack(h)
    /\ FinishTx(h, "OperationalError", "deadlock", <<>>)
    /\ UNCHANGED <<BORROWER, Ssn, BOOK, BOOK_LOANS, today, result>>

----------------------------------------------------------------------------
(* The clock *)

\* The clock is read on day 0 and next on or after the first due date; no
\* call has been made yet on the new day.
Tick ==
    /\ today < MaxDay
    /\ \E d \in (today + 1)..MaxDay : d >= LOAN_DURATION_DAYS /\ today' = d
    /\ result' = NoCall
    /\ UNCHANGED <<BORROWER, BOOK, BOOK_LOANS, FINES>>

----------------------------------------------------------------------------

\* A checkout that would insert a row beyond the bound n is not taken.
Bounded(n, card_id, isbn) ==
    CheckoutError(card_id, isbn)[1] = "none" => Len(BOOK_LOANS) < n

Init ==
    /\ BORROWER = 1..NumBorrowers
    /\ BOOK = 1..NumBooks
    /\ BOOK_LOANS = <<>>
    /\ FINES = {}
    /\ today = 0
    /\ result = NoCall
    /\ Ssn = [c \in BORROWER |-> c]
    /\ calls = NoCalls
    /\ Title = [isbn \in BOOK |-> <<"x">>]
    /\ BOOK_AUTHORS = {}

Next ==
    /\ \/ \E card_id \in CardIds, isbn \in Isbns :
             Bounded(MaxLoans, card_id, isbn) /\ checkout(card_id, isbn)
       \/ \E loan_id \in 1..(Len(BOOK_LOANS) + 1) : checkin(loan_id)
       \/ \E current_date \in Dates : update_fines(current_date)
       \/ \E loan_id \in 1..(Len(BOOK_LOANS) + 1) : pay_loan_fine(loan_id)
       \/ \E card_id \in CardIds : pay_borrower_fines(card_id)
       \/ Tick
    /\ UNCHANGED <<Ssn, calls, Title, BOOK_AUTHORS>>

Spec == Init /\ [][Next]_vars

\* The same operations within one day, with enough books and loans to reach
\* the active-loan cap.
\* The state after checkout(1, 1), checkout(1, 2) and checkout(1, 3) on day 0.
CapLoans ==
    [i \in 1..MAX_ACTIVE_LOANS |->
        [isbn |-> i, card_id |-> 1, date_out |-> 0,
         due_date |-> LOAN_DURATION_DAYS, date_in |-> NULL]]

InitCap ==
    /\ BORROWER = 1..NumCapBorrowers
    /\ BOOK = 1..NumCapBooks
    /\ BOOK_LOANS = CapLoans
    /\ FINES = {}
    /\ today = 0
    /\ result = Return("checkout", <<1, MAX_ACTIVE_LOANS>>,
                       <<LoanView(CapLoans, {}, MAX_ACTIVE_LOANS)>>)
    /\ Ssn = [c \in BORROWER |-> c]
    /\ calls = NoCalls
    /\ Title = [isbn \in BOOK |-> <<"x">>]
    /\ BOOK_AUTHORS = {}

NextCap ==
    /\ \/ \E card_id \in CardIds, isbn \in Isbns :
             Bounded(MaxCapLoans, card_id, isbn) /\ checkout(card_id, isbn)
       \/ \E loan_id \in 1..(Len(BOOK_LOANS) + 1) : checkin(loan_id)
       \/ \E current_date \in CapDates : update_fines(current_date)
       \/ \E loan_id \in 1..(Len(BOOK_LOANS) + 1) : pay_loan_fine(loan_id)
       \/ \E card_id \in CardIds : pay_borrower_fines(card_id)
    /\ UNCHANGED <<Ssn, calls, Title, BOOK_AUTHORS>>

SpecCap == InitCap /\ [][NextCap]_vars

\* The end-to-end run of src/main.py: one new borrower, the sweep dated a
\* fixed number of days after a loan's due date.
TraceDates ==
    {BOOK_LOANS[i].due_date + k : i \in LoanIds, k \in TraceAhead}

InitTrace ==
    /\ BORROWER = {1}
    /\ BOOK = 1..NumTraceBooks
    /\ BOOK_LOANS = <<>>
    /\ FINES = {}
    /\ today = 0
    /\ result = NoCall
    /\ Ssn = [c \in BORROWER |-> c]
    /\ calls = NoCalls
    /\ Title = [isbn \in BOOK |-> <<"x">>]
    /\ BOOK_AUTHORS = {}

NextTrace ==
    /\ \/ \E card_id \in CardIds, isbn \in Isbns :
             Bounded(MaxTraceLoans, card_id, isbn) /\ checkout(card_id, isbn)
       \/ \E loan_id \in 1..(Len(BOOK_LOANS) + 1) : checkin(loan_id)
       \/ \E current_date \in TraceDates : update_fines(current_date)
       \/ \E loan_id \in 1..(Len(BOOK_LOANS) + 1) : pay_loan_fine(loan_id)
       \/ \E card_id \in CardIds : pay_borrower_fines(card_id)
       \/ Tick
    /\ UNCHANGED <<Ssn, calls, Title, BOOK_AUTHORS>>

SpecTrace == InitTrace /\ [][NextTrace]_vars

\* create_borrower calls run one at a time on an empty BORROWER table.
InitBorrower ==
    /\ BORROWER = {}
    /\ BOOK = {}
    /\ BOOK_LOANS = <<>>
    /\ FINES = {}
    /\ today = 0
    /\ result = NoCall
    /\ Ssn = <<>>
    /\ calls = NoCalls
    /\ Title = [isbn \in BOOK |-> <<"x">>]
    /\ BOOK_AUTHORS = {}

NextBorrower ==
    /\ \E ssn \in Ssns, card_id \in SuppliedCardIds :
          /\ Cardinality(BORROWER) < MaxBorrowers
          /\ create_borrower(ssn, card_id)
    /\ UNCHANGED <<Title, BOOK_AUTHORS>>

SpecBorrower == InitBorrower /\ [][NextBorrower]_vars

\* create_borrower calls of the request handlers, interleaved, on a table
\* that holds the first generated borrower.
InitBorrowerRace ==
    /\ BORROWER = {NextCardId(<<>>)}
    /\ BOOK = {}
    /\ BOOK_LOANS = <<>>
    /\ FINES = {}
    /\ today = 0
    /\ result = NoCall
    /\ Ssn = [c \in BORROWER |-> 1]
    /\ calls = NoCalls
    /\ Title = [isbn \in BOOK |-> <<"x">>]
    /\ BOOK_AUTHORS = {}

NextBorrowerRace ==
    /\ \E h \in Handlers :
          \/ \E ssn \in Ssns, card_id \in SuppliedCardIds :
                BeginCreateBorrower(h, ssn, card_id)
          \/ CreateBorrowerSsn(h)
          \/ CreateBorrowerGenerate(h)
          \/ CreateBorrowerInsert(h)
    /\ UNCHANGED <<Title, BOOK_AUTHORS>>

SpecBorrowerRace == InitBorrowerRace /\ [][NextBorrowerRace]_vars

\* checkout calls of the request handlers, interleaved; borrower 1 holds
\* two active loans, one less than the cap.
RaceLoans ==
    [i \in 1..(MAX_ACTIVE_LOANS - 1) |->
        [isbn |-> i, card_id |-> 1, date_out |-> 0,
         due_date |-> LOAN_DURATION_DAYS, date_in |-> NULL]]

InitCheckoutRace ==
    /\ BORROWER = 1..NumBorrowers
    /\ BOOK = 1..NumRaceBooks
    /\ BOOK_LOANS = RaceLoans
    /\ FINES = {}
    /\ today = 0
    /\ result = NoCall
    /\ Ssn = [c \in BORROWER |-> c]
    /\ calls = NoCalls
    /\ Title = [isbn \in BOOK |-> <<"x">>]
    /\ BOOK_AUTHORS = {}

NextCheckoutRace ==
    /\ \E h \in Handlers :
          \/ \E card_id \in CardIds, isbn \in Isbns : BeginCheckout(h, card_id, isbn)
          \/ CheckoutBorrower(h)
          \/ CheckoutBook(h)
          \/ CheckoutAvailable(h)
          \/ CheckoutFines(h)
          \/ CheckoutCap(h)
          \/ CheckoutInsert(h)
    /\ UNCHANGED <<Title, BOOK_AUTHORS>>

SpecCheckoutRace == InitCheckoutRace /\ [][NextCheckoutRace]_vars

\* Query.of applied to the query strings of one token and of a token next
\* to another one.
Token(keyword, value) == keyword \o <<":">> \o value

BothCases(s) == {s, upper(s)}

\* The keywords of a field: its name and its aliases
KeywordsOf(f) ==
    {Lit[f]} \cup (IF f \in DOMAIN KEYWORD_ALIASES THEN KEYWORD_ALIASES[f] ELSE {})

TextFields == {"borrower", "card", "phone", "isbn", "title", "author", "loan_id", "sort"}
TextValues == {<<"x">>, <<"A", "b">>, <<"\"">> \o <<"a", " ", "b">> \o <<"\"">>, <<"a", ":", "b">>}
NumberFields == {"limit", "page"}
NumberValues == {FormatInt(n) : n \in (0 - MaxNumber)..MaxNumber} \cup {<<"x">>}

FieldTokens ==
    UNION {{Token(k, v) : k \in UNION {BothCases(w) : w \in KeywordsOf(f)},
                          v \in TextValues} : f \in TextFields}
    \cup UNION {{Token(k, v) : k \in UNION {BothCases(w) : w \in KeywordsOf(f)},
                               v \in UNION {BothCases(w) : w \in DOMAIN VALUE_MAPPINGS[f]}}
                : f \in DOMAIN VALUE_MAPPINGS}
    \cup UNION {{Token(k, v) : k \in KeywordsOf(f), v \in NumberValues}
                : f \in NumberFields}

OtherKeywords ==
    {<<"f", "o", "o">>, <<>>, <<"r", "a", "w", "_", "q", "u", "e", "r", "y">>, <<"a", "n", "y", "_", "t", "e", "r", "m">>, <<"p", "a", "r", "s", "e">>, <<"o", "f">>,
     <<"h", "a", "s", "_", "f", "i", "l", "t", "e", "r", "s">>, <<"_", "s", "e", "t", "_", "k", "e", "y", "w", "o", "r", "d", "_", "v", "a", "l", "u", "e">>, <<"_", "_", "c", "l", "a", "s", "s", "_", "_">>,
     <<"_", "_", "d", "i", "c", "t", "_", "_">>, <<"_", "_", "d", "o", "c", "_", "_">>, lower(<<"K", "E", "Y", "W", "O", "R", "D", "_", "A", "L", "I", "A", "S", "E", "S">>),
     <<"K", "E", "Y", "W", "O", "R", "D", "_", "A", "L", "I", "A", "S", "E", "S">>}

OtherTokens == {Token(k, <<"x">>) : k \in OtherKeywords}

BaseTokens == {<<"z", "z">>, Token(<<"t", "i", "t", "l", "e">>, <<"A", "b">>), Token(<<"p", "a", "g", "e">>, FormatInt(2))}

QueryStrings ==
    FieldTokens \cup OtherTokens \cup BaseTokens
    \cup {b \o <<" ">> \o u : b \in BaseTokens, u \in OtherTokens}
    \cup {u \o <<" ">> \o b : b \in BaseTokens, u \in OtherTokens}

InitQuery ==
    /\ BORROWER = {}
    /\ BOOK = {}
    /\ BOOK_LOANS = <<>>
    /\ FINES = {}
    /\ today = 0
    /\ result = NoCall
    /\ Ssn = <<>>
    /\ calls = NoCalls
    /\ Title = [isbn \in BOOK |-> <<"x">>]
    /\ BOOK_AUTHORS = {}

NextQuery ==
    /\ result.op = "none"
    /\ \E query_string \in QueryStrings : Query_of(query_string)
    /\ UNCHANGED <<Title, BOOK_AUTHORS>>

SpecQuery == InitQuery /\ [][NextQuery]_vars

----------------------------------------------------------------------------
(* The searches over a catalogue with titles and authors, before any loan   *)
(* and after two loans, one returned late and paid for, one overdue.  One   *)
(* search is made per behaviour.                                            *)

Phrase(a, b) ==
    IF a = <<>> THEN b ELSE IF b = <<>> THEN a ELSE a \o <<" ">> \o b

SortTokens(fields) == {<<>>} \cup {Token(<<"s", "o", "r", "t">>, f) : f \in fields}
OrderTokens == {<<>>, Token(<<"o", "r", "d", "e", "r">>, <<"d", "e", "s", "c">>)}
SortPhrases(fields) == {Phrase(s, o) : s \in SortTokens(fields), o \in OrderTokens}

BookFilters ==
    {Token(<<"a", "u", "t", "h", "o", "r">>, <<"z", "z">>), Token(<<"t", "i", "t", "l", "e">>, <<"a", "b">>),
     Token(<<"i", "s", "b", "n">>, <<"1">>), <<"x">>}
AvailableFilters ==
    {Token(<<"a", "v", "a", "i", "l", "a", "b", "l", "e">>, <<"y", "e", "s">>), Token(<<"a", "v", "a", "i", "l", "a", "b", "l", "e">>, <<"n", "o">>)}
LoanFilters ==
    {Token(<<"l", "o", "a", "n", "_", "i", "s">>, <<"a", "c", "t", "i", "v", "e">>), Token(<<"l", "o", "a", "n", "_", "i", "s">>, <<"i", "n">>),
     Token(<<"d", "u", "e">>, <<"p", "a", "s", "t">>), Token(<<"d", "u", "e">>, <<"f", "u", "t", "u", "r", "e">>),
     Token(<<"f", "i", "n", "e", "_", "i", "s">>, <<"o", "w", "e", "d">>), Token(<<"f", "i", "n", "e", "_", "i", "s">>, <<"p", "a", "i", "d">>),
     Token(<<"l", "o", "a", "n", "_", "i", "d">>, <<"1">>), Token(<<"c", "a", "r", "d">>, <<"1">>),
     Token(<<"i", "s", "b", "n">>, <<"2">>)}
LoanBookFilters ==
    {Token(<<"a", "u", "t", "h", "o", "r">>, <<"z", "z">>), Token(<<"t", "i", "t", "l", "e">>, <<"a", "b">>)}
BorrowerFilters == {Token(<<"c", "a", "r", "d">>, <<"1">>)}
FineFilters ==
    {Token(<<"f", "i", "n", "e", "_", "i", "s">>, <<"o", "w", "e", "d">>), Token(<<"f", "i", "n", "e", "_", "i", "s">>, <<"p", "a", "i", "d">>)}

BookSorts ==
    {<<"i", "s", "b", "n">>,
     <<"t", "i", "t", "l", "e">>,
     <<"a", "u", "t", "h", "o", "r">>,
     <<"z", "z">>}
LoanSorts ==
    {<<"l", "o", "a", "n", "_", "i", "d">>,
     <<"i", "s", "b", "n">>,
     <<"c", "a", "r", "d">>,
     <<"d", "a", "t", "e", "_", "o", "u", "t">>,
     <<"d", "u", "e", "_", "d", "a", "t", "e">>,
     <<"d", "a", "t", "e", "_", "i", "n">>,
     <<"f", "i", "n", "e", "_", "a", "m", "t">>,
     <<"z", "z">>}
BorrowerSorts ==
    {<<"c", "a", "r", "d", "_", "i", "d">>,
     <<"z", "z">>}

\* views.search_books: query = Query.of(q); query.page = page; query.limit = limit
Limits == {None} \cup {IntVal(n) : n \in 0..MaxLimit}
Pages == 0..MaxPage
Queries(strings) ==
    {[of(s).q EXCEPT !["limit"] = limit, !["page"] = IntVal(page)] :
        s \in strings, limit \in Limits, page \in Pages}

\* card_id of search_borrowers_with_fines: empty, or the card of a borrower
SearchCardIds == {<<>>, FormatNat(1)}

SearchLoans ==
    <<[isbn |-> 1, card_id |-> 2, date_out |-> 0,
       due_date |-> LOAN_DURATION_DAYS, date_in |-> LOAN_DURATION_DAYS + 1],
      [isbn |-> 2, card_id |-> 1, date_out |-> 1,
       due_date |-> LOAN_DURATION_DAYS + 1, date_in |-> NULL]>>
SearchFines ==
    {[loan_id |-> 1, fine_amt |-> FINE_RATE_CENTS, paid |-> TRUE],
     [loan_id |-> 2, fine_amt |-> FINE_RATE_CENTS, paid |-> FALSE]}

InitSearch ==
    /\ BORROWER = 1..NumBorrowers
    /\ BOOK = 1..NumSearchBooks
    /\ \/ BOOK_LOANS = <<>> /\ FINES = {} /\ today = 0
       \/ /\ BOOK_LOANS = SearchLoans
          /\ FINES = SearchFines
          /\ today = LOAN_DURATION_DAYS + 2
    /\ result = NoCall
    /\ Ssn = [c \in BORROWER |-> c]
    /\ calls = NoCalls
    /\ Title \in [BOOK -> Titles]
    /\ BOOK_AUTHORS \in {rows \in SUBSET [isbn : BOOK, name : AuthorNames] :
                            Cardinality(rows) <= MaxAuthorRows}

NextSearch ==
    /\ result.op = "none"
    /\ \/ \E query \in Queries(SortPhrases(BookSorts) \cup BookFilters) :
             search_books(query)
       \/ \E query \in Queries(SortPhrases(BookSorts) \cup BookFilters
                               \cup AvailableFilters) :
             search_books_with_loan(query)
       \/ \E query \in Queries(SortPhrases(LoanSorts) \cup LoanFilters) :
             search_loans(query)
       \/ \E query \in Queries(SortPhrases(LoanSorts \cup {<<"t", "i", "t", "l", "e">>})
                               \cup LoanFilters \cup LoanBookFilters) :
             search_loans_with_book(query)
       \/ \E query \in Queries(SortPhrases(BorrowerSorts) \cup BorrowerFilters) :
             search_borrowers(query)
       \/ \E card_id \in SearchCardIds,
             query \in Queries(SortPhrases(BorrowerSorts \cup {<<"f", "i", "n", "e", "s">>})
                               \cup BorrowerFilters \cup FineFilters) :
             search_borrowers_with_fines(card_id, query)

SpecSearch == InitSearch /\ [][NextSearch]_vars

----------------------------------------------------------------------------
(* The races on FINES: two loans of one borrower, the first with an unpaid  *)
(* fine from the sweep of the day before and the second overdue since       *)
(* today; each handler serves one request.                                  *)

FineRaceLoans ==
    <<[isbn |-> 1, card_id |-> 1, date_out |-> 0,
       due_date |-> LOAN_DURATION_DAYS, date_in |-> NULL],
      [isbn |-> 2, card_id |-> 1, date_out |-> 1,
       due_date |-> LOAN_DURATION_DAYS + 1, date_in |-> NULL]>>

\* current_date of update_fines: today, or the day after
SweepDates == {today, today + 1}

InitFineRace ==
    /\ BORROWER = 1..NumBorrowers
    /\ BOOK = 1..NumRaceBooks
    /\ BOOK_LOANS = FineRaceLoans
    /\ FINES = {[loan_id |-> 1, fine_amt |-> FINE_RATE_CENTS, paid |-> FALSE]}
    /\ today = LOAN_DURATION_DAYS + 2
    /\ result = NoCall
    /\ Ssn = [c \in BORROWER |-> c]
    /\ calls = NoCalls
    /\ Title = [isbn \in BOOK |-> <<"x">>]
    /\ BOOK_AUTHORS = {}

NextFineRace ==
    /\ \E h \in Handlers :
          \/ \E current_date \in SweepDates : BeginUpdateFines(h, current_date)
          \/ UpdateFinesOverdue(h)
          \/ UpdateFinesExists(h)
          \/ UpdateFinesUpdate(h)
          \/ UpdateFinesInsert(h)
          \/ UpdateFinesCommit(h)
          \/ \E loan_id \in LoanIds \cup {Len(BOOK_LOANS) + 1} :
                BeginPayLoanFine(h, loan_id)
          \/ PayLoanFineLoan(h)
          \/ PayLoanFineUpdate(h)
          \/ PayLoanFineRead(h)
          \/ \E card_id \in CardIds : BeginPayBorrowerFines(h, card_id)
          \/ PayBorrowerFinesBorrower(h)
          \/ PayBorrowerFinesLoans(h)
          \/ PayBorrowerFinesUpdate(h)
          \/ PayBorrowerFinesRead(h)
          \/ Deadlock(h)
    /\ UNCHANGED <<Title, BOOK_AUTHORS>>

SpecFineRace == InitFineRace /\ [][NextFineRace]_vars

----------------------------------------------------------------------------
(* Properties.  result holds the call just made, so a state in which         *)
(* result.op names an operation is the state right after that call: after a *)
(* refused call the tables are those the call saw, and after a successful   *)
(* checkout they are those tables with the new row appended.                *)

CheckoutDone == result.op = "checkout" /\ result.exc = "none"
CheckoutRefused == result.op = "checkout" /\ result.exc # "none"

\* BOOK_LOANS as the checkout in result saw it
LoansBefore ==
    IF CheckoutDone THEN SubSeq(BOOK_LOANS, 1, Len(BOOK_LOANS) - 1) ELSE BOOK_LOANS

ActiveOfBookIn(rows, isbn) ==
    {i \in 1..Len(rows) : rows[i].isbn = isbn /\ rows[i].date_in = NULL}

ActiveOfBorrowerIn(rows, card_id) ==
    {i \in 1..Len(rows) : rows[i].card_id = card_id /\ rows[i].date_in = NULL}

UnpaidPositive(card_id) ==
    \E f \in FINES : /\ f.loan_id \in LoanIds
                     /\ BOOK_LOANS[f.loan_id].card_id = card_id
                     /\ f.paid = FALSE
                     /\ f.fine_amt > 0

\* C1: at most one loan with date_in = NULL per isbn in every reachable
\* state, and a checkout of an isbn that already has an active loan is
\* refused.
C1_OneActiveLoanPerIsbn ==
    /\ \A isbn \in Isbns : Cardinality(ActiveLoansOfBook(isbn)) <= 1
    /\ CheckoutDone => ActiveOfBookIn(LoansBefore, result.args[2]) = {}

C1_Witness ==
    /\ CheckoutRefused
    /\ result.msg = "book_on_loan"
    /\ Cardinality(ActiveLoansOfBook(result.args[2])) = 1
    /\ \E i \in LoanIds : BOOK_LOANS[i].date_in # NULL

\* C2: no borrower has more than 3 active loans in any reachable state; a
\* checkout for a borrower with 3 active loans is refused, and a checkout for
\* a borrower with 2 active loans is refused only if another precondition
\* fails.
C2_ActiveLoanCap ==
    /\ \A card_id \in CardIds :
         Cardinality(ActiveLoansOfBorrower(card_id)) <= 3
    /\ CheckoutDone =>
         Cardinality(ActiveOfBorrowerIn(LoansBefore, result.args[1])) < 3
    /\ ( /\ CheckoutRefused
         /\ Cardinality(ActiveLoansOfBorrower(result.args[1])) = 2 )
         => \/ result.args[1] \notin BORROWER
            \/ result.args[2] \notin BOOK
            \/ ActiveLoansOfBook(result.args[2]) # {}
            \/ UnpaidPositive(result.args[1])

C2_Witness ==
    /\ CheckoutRefused
    /\ result.msg = "max_active_loans"
    /\ Cardinality(ActiveLoansOfBorrower(result.args[1])) = 3
    /\ Len(BOOK_LOANS) = 4

\* C3: checkout never creates a loan for a borrower whose unpaid fines,
\* summed over all of the borrower's loans, are greater than 0.
C3_UnpaidFineBlocks ==
    CheckoutDone => ( /\ get_user_fines(result.args[1]) = 0
                      /\ ~UnpaidPositive(result.args[1]) )

C3_Witness ==
    /\ CheckoutRefused
    /\ result.msg = "unpaid_fines"
    /\ UnpaidPositive(result.args[1])
    /\ ActiveLoansOfBorrower(result.args[1]) = {}
    /\ ActiveLoansOfBook(result.args[2]) = {}

\* C4: checkout reports the lowest-numbered failing precondition among
\* (1) borrower exists, (2) book exists, (3) book has no active loan,
\* (4) borrower has no unpaid fine > 0, (5) borrower has fewer than 3
\* active loans, and succeeds only when none fails.
Fails(k, card_id, isbn) ==
    CASE k = 1 -> card_id \notin BORROWER
      [] k = 2 -> isbn \notin BOOK
      [] k = 3 -> ActiveOfBookIn(LoansBefore, isbn) # {}
      [] k = 4 -> UnpaidPositive(card_id)
      [] k = 5 -> Cardinality(ActiveOfBorrowerIn(LoansBefore, card_id)) >= 3

ErrorOfCheck ==
    <<"borrower_missing", "book_missing", "book_on_loan", "unpaid_fines",
      "max_active_loans">>

C4_PreconditionOrder ==
    result.op = "checkout" =>
      LET failing == {k \in 1..5 : Fails(k, result.args[1], result.args[2])} IN
      IF failing = {} THEN result.exc = "none"
      ELSE LET first == CHOOSE k \in failing : \A j \in failing : k <= j
           IN /\ result.msg = ErrorOfCheck[first]
              /\ result.exc = IF first <= 2 THEN "ObjectDoesNotExist"
                              ELSE "ValidationError"

C4_Witness ==
    /\ CheckoutRefused
    /\ result.msg = "book_on_loan"
    /\ UnpaidPositive(result.args[1])
    /\ Cardinality(ActiveLoansOfBorrower(result.args[1])) >= 3

\* C5: a successful checkout adds exactly one loan with a fresh loan_id,
\* date_out = today, due_date = date_out + 14 and date_in = NULL, and returns
\* it with fine_amt = 0 and paid = FALSE; every loan in every reachable state
\* has due_date = date_out + 14.
C5_CheckoutCreatesLoan ==
    /\ [](\A i \in LoanIds : BOOK_LOANS[i].due_date = BOOK_LOANS[i].date_out + 14)
    /\ [](CheckoutDone =>
            LET n == Len(BOOK_LOANS) IN
            /\ BOOK_LOANS[n] = [isbn |-> result.args[2], card_id |-> result.args[1],
                                date_out |-> today, due_date |-> today + 14,
                                date_in |-> NULL]
            /\ result.ret = <<[loan_id |-> n, isbn |-> result.args[2],
                               card_id |-> result.args[1], date_out |-> today,
                               due_date |-> today + 14, date_in |-> NULL,
                               fine_amt |-> 0, paid |-> FALSE]>>)
    /\ [][(result'.op = "checkout" /\ result'.exc = "none") =>
            /\ Len(BOOK_LOANS') = Len(BOOK_LOANS) + 1
            /\ \A i \in LoanIds : BOOK_LOANS'[i] = BOOK_LOANS[i]
            /\ \A f \in FINES : f.loan_id # Len(BOOK_LOANS')
            /\ FINES' = FINES]_vars

C5_Witness ==
    /\ CheckoutDone
    /\ today > 0
    /\ result.ret[1].loan_id = 2
    /\ result.ret[1].date_out = today
    /\ BOOK_LOANS[1].date_out < today

\* C6: checkin(loan_id) fails with NotFound when no loan has that id and with
\* Conflict (already returned) when the loan's date_in is set; in both cases
\* the stored date_in of every loan is unchanged.
C6_CheckinFailures ==
    [][result'.op = "checkin" =>
         LET loan_id == result'.args[1] IN
         /\ loan_id \notin LoanIds =>
              /\ result'.exc = "ObjectDoesNotExist"
              /\ BOOK_LOANS' = BOOK_LOANS
         /\ (loan_id \in LoanIds /\ BOOK_LOANS[loan_id].date_in # NULL) =>
              /\ result'.exc = "ValidationError"
              /\ result'.msg = "already_returned"
              /\ Len(BOOK_LOANS') = Len(BOOK_LOANS)
              /\ \A i \in LoanIds : BOOK_LOANS'[i].date_in = BOOK_LOANS[i].date_in]_vars

C6_Witness ==
    /\ result.op = "checkin"
    /\ result.msg = "already_returned"
    /\ BOOK_LOANS[result.args[1]].date_in # NULL
    /\ BOOK_LOANS[result.args[1]].date_in < today

\* C7: a loan is created only by checkout, with date_in NULL; its date_in
\* changes at most once, from NULL to the check-in date and only by checkin;
\* a returned loan never becomes active again; isbn, card_id, date_out and
\* due_date of an existing loan never change.
C7_LoanLifecycle ==
    [][/\ Len(BOOK_LOANS') >= Len(BOOK_LOANS)
       /\ Len(BOOK_LOANS') > Len(BOOK_LOANS) =>
            /\ Len(BOOK_LOANS') = Len(BOOK_LOANS) + 1
            /\ result'.op = "checkout"
            /\ BOOK_LOANS'[Len(BOOK_LOANS')].date_in = NULL
       /\ \A i \in LoanIds :
            /\ BOOK_LOANS'[i].isbn = BOOK_LOANS[i].isbn
            /\ BOOK_LOANS'[i].card_id = BOOK_LOANS[i].card_id
            /\ BOOK_LOANS'[i].date_out = BOOK_LOANS[i].date_out
            /\ BOOK_LOANS'[i].due_date = BOOK_LOANS[i].due_date
            /\ BOOK_LOANS'[i].date_in # BOOK_LOANS[i].date_in =>
                 /\ BOOK_LOANS[i].date_in = NULL
                 /\ BOOK_LOANS'[i].date_in = today
                 /\ result'.op = "checkin"
                 /\ result'.args = <<i>>]_vars

C7_Witness ==
    /\ Len(BOOK_LOANS) = 2
    /\ BOOK_LOANS[1].date_in # NULL
    /\ BOOK_LOANS[1].date_in > BOOK_LOANS[1].due_date
    /\ BOOK_LOANS[2].date_in = NULL
    /\ \E f \in FINES : f.loan_id = 1 /\ f.paid = TRUE

\* The loans the sweep is specified to select for the date d
SpecifiedSelection(d) ==
    {i \in LoanIds :
        \/ (BOOK_LOANS[i].date_in # NULL /\ BOOK_LOANS[i].date_in > BOOK_LOANS[i].due_date)
        \/ (BOOK_LOANS[i].date_in = NULL /\ BOOK_LOANS[i].due_date < d)}

\* 0.25 x max(days_late, 0) in cents, days_late counted to date_in if the loan
\* is returned and to d otherwise
ExpectedFine(l, d) ==
    LET days_late == (IF l.date_in # NULL THEN l.date_in ELSE d) - l.due_date
    IN 25 * (IF days_late > 0 THEN days_late ELSE 0)

\* C8: update_fines(as_of_date) processes exactly the loans with
\* (date_in not NULL and date_in > due_date) or (date_in NULL and
\* due_date < as_of_date), for every as_of_date: after the sweep each of
\* them has a Fine row, holding the computed amount if it is unpaid.
C8_SweepSelection ==
    result.op = "update_fines" =>
      \A i \in SpecifiedSelection(result.args[1]) :
         /\ FineRowsOf(i) # {}
         /\ \A f \in FineRowsOf(i) :
              f.paid = FALSE =>
                f.fine_amt = ExpectedFine(BOOK_LOANS[i], result.args[1])

\* The other half of C8: the sweep creates or changes no Fine row of a loan
\* outside that selection.
C8_SweepFrame ==
    [][result'.op = "update_fines" =>
         \A f \in FINES' \ FINES :
            f.loan_id \in SpecifiedSelection(result'.args[1])]_vars

\* C9: after update_fines(as_of_date) every loan the sweep processed whose
\* fine is unpaid has fine_amt = 0.25 x max(days_late, 0), recomputed from the
\* dates; no fine amount is negative.
C9_FineArithmetic ==
    /\ \A f \in FINES : f.fine_amt >= 0
    /\ result.op = "update_fines" =>
         \A i \in Overdue(result.args[1]) :
            /\ FineRowsOf(i) # {}
            /\ \A f \in FineRowsOf(i) :
                 f.paid = FALSE =>
                   f.fine_amt = ExpectedFine(BOOK_LOANS[i], result.args[1])

C9_Witness ==
    /\ result.op = "update_fines"
    /\ result.args[1] = 16
    /\ \E i, j \in Overdue(16) :
         /\ BOOK_LOANS[i].date_in = 15
         /\ [loan_id |-> i, fine_amt |-> 25, paid |-> FALSE] \in FINES
         /\ BOOK_LOANS[j].date_in = NULL
         /\ [loan_id |-> j, fine_amt |-> 50, paid |-> FALSE] \in FINES

\* C10: after an update_fines run, a loan returned on or before its due date
\* has no unpaid fine with a positive amount, also when an earlier sweep dated
\* after the due date ran while the loan was active.
C10_OnTimeReturnNoFine ==
    result.op = "update_fines" =>
      \A i \in LoanIds :
         (BOOK_LOANS[i].date_in # NULL /\ BOOK_LOANS[i].date_in <= BOOK_LOANS[i].due_date)
           => \A f \in FineRowsOf(i) : ~(f.paid = FALSE /\ f.fine_amt > 0)

\* C11: update_fines never changes a paid fine: every Fine row with
\* paid = TRUE before the sweep is the same row, with the same fine_amt and
\* paid, after it, for every sweep date and whether the loan is active or
\* returned.
C11_PaidFineFrozen ==
    [][result'.op = "update_fines" =>
         \A f \in FINES : f.paid = TRUE =>
            /\ f \in FINES'
            /\ \A g \in FINES' : g.loan_id = f.loan_id => g = f]_vars

\* After a sweep that selected an active and a late-returned loan, each with a
\* paid fine smaller than the amount the sweep computes for it.
C11_Witness ==
    /\ result.op = "update_fines"
    /\ \E i, j \in Overdue(result.args[1]) :
         /\ BOOK_LOANS[i].date_in = NULL
         /\ BOOK_LOANS[j].date_in # NULL
         /\ \E f, g \in FINES :
              /\ f.loan_id = i /\ f.paid = TRUE
              /\ f.fine_amt < FineAmt(BOOK_LOANS[i], result.args[1])
              /\ g.loan_id = j /\ g.paid = TRUE

\* C12: update_fines(d) run twice in a row with the same d leaves the Fine
\* rows, their amounts and their paid flags as the first run left them, and no
\* loan ever has two Fine rows.
C12_SweepIdempotent ==
    /\ [](\A f, g \in FINES : f.loan_id = g.loan_id => f = g)
    /\ [][(/\ result.op = "update_fines"
           /\ result'.op = "update_fines"
           /\ result'.args = result.args) => FINES' = FINES]_vars

\* After update_fines(d) on a table holding an unpaid fine the sweep set, a
\* paid fine and a loan selected by the sweep: the state a second
\* update_fines(d) starts from and ends in.
C12_Witness ==
    /\ result.op = "update_fines"
    /\ \E f, g \in FINES :
         /\ f.paid = FALSE /\ f.fine_amt > 0
         /\ f.loan_id \in Overdue(result.args[1])
         /\ g.paid = TRUE
         /\ g.loan_id \in Overdue(result.args[1])

\* C13: a Fine with paid = TRUE never goes back to paid = FALSE (and is never
\* deleted) under checkout, checkin, update_fines, pay_loan_fine or
\* pay_borrower_fines, and paid becomes TRUE only in a step of pay_loan_fine
\* or pay_borrower_fines.
C13_PaymentIrreversible ==
    [][/\ \A f \in FINES : f.paid = TRUE =>
            \E g \in FINES' : g.loan_id = f.loan_id /\ g.paid = TRUE
       /\ \A g \in FINES' :
            (g.paid = TRUE /\ ~\E f \in FINES : f.loan_id = g.loan_id /\ f.paid = TRUE)
              => result'.op \in {"pay_loan_fine", "pay_borrower_fines"}]_vars

\* A paid fine of a still active loan right after a sweep that selected the
\* loan, on a later day than the checkout.
C13_Witness ==
    /\ result.op = "update_fines"
    /\ today > 0
    /\ \E f \in FINES :
         /\ f.paid = TRUE
         /\ f.loan_id \in Overdue(result.args[1])
         /\ BOOK_LOANS[f.loan_id].date_in = NULL
    /\ \E g \in FINES : g.paid = FALSE

Payable(loan_id) ==
    /\ loan_id \in LoanIds
    /\ \E f \in FINES : f.loan_id = loan_id /\ f.paid = FALSE /\ f.fine_amt > 0

\* C14 as claimed: pay_loan_fine(loan_id) fails and changes nothing when the
\* loan does not exist or has no payable fine (no Fine row, an amount of 0, or
\* already paid); it succeeds only for a loan with a positive unpaid fine,
\* whose paid flag it sets.
C14_PayLoanFineFailures ==
    [][result'.op = "pay_loan_fine" =>
         LET loan_id == result'.args[1] IN
         IF Payable(loan_id)
         THEN /\ result'.exc = "none"
              /\ \A g \in FINES' : g.loan_id = loan_id => g.paid = TRUE
         ELSE /\ result'.exc # "none"
              /\ FINES' = FINES
              /\ BOOK_LOANS' = BOOK_LOANS]_vars

\* C14 as amended: pay_loan_fine(loan_id) fails with NotFound and changes
\* nothing when the loan does not exist; for an existing loan it succeeds and
\* returns the loan, sets paid = TRUE on the loan's Fine row if there is one,
\* and changes no amount, no other Fine row and no loan; when the loan has no
\* Fine row or its fine is already paid, nothing stored changes.
C14_PayLoanFine ==
    [][result'.op = "pay_loan_fine" =>
         LET loan_id == result'.args[1] IN
         /\ BOOK_LOANS' = BOOK_LOANS
         /\ {f.loan_id : f \in FINES'} = {f.loan_id : f \in FINES}
         /\ \A f \in FINES : \E g \in FINES' :
              /\ g.loan_id = f.loan_id
              /\ g.fine_amt = f.fine_amt
              /\ g.paid = (f.paid \/ (f.loan_id = loan_id /\ loan_id \in LoanIds))
         /\ loan_id \notin LoanIds =>
              /\ result'.exc = "ObjectDoesNotExist"
              /\ FINES' = FINES
         /\ loan_id \in LoanIds =>
              /\ result'.exc = "none"
              /\ Len(result'.ret) = 1
              /\ result'.ret[1].loan_id = loan_id
              /\ result'.ret[1].paid = (FineRowsOf(loan_id) # {})
         /\ (loan_id \in LoanIds /\ \A f \in FineRowsOf(loan_id) : f.paid = TRUE) =>
              FINES' = FINES]_vars

\* pay_loan_fine has just succeeded on a loan without a Fine row while another
\* loan keeps its unpaid fine.
C14_Witness ==
    /\ result.op = "pay_loan_fine"
    /\ result.exc = "none"
    /\ FineRowsOf(result.args[1]) = {}
    /\ result.ret[1].paid = FALSE
    /\ \E f \in FINES : f.paid = FALSE /\ f.fine_amt > 0

\* C15: pay_borrower_fines(card_id) for an existing borrower sets paid = TRUE
\* on exactly the Fine rows of the borrower's loans that were unpaid with
\* fine_amt > 0 and returns those loans; it changes no amount, no fine of
\* another borrower and no loan, and afterwards get_user_fines(card_id) = 0;
\* for a card_id that is not stored it fails with NotFound and changes nothing.
C15_PayBorrowerFines ==
    /\ [](result.op = "pay_borrower_fines" /\ result.exc = "none"
            => get_user_fines(result.args[1]) = 0)
    /\ [][result'.op = "pay_borrower_fines" =>
            LET card_id == result'.args[1]
                targeted == {f \in FINES : /\ BOOK_LOANS[f.loan_id].card_id = card_id
                                           /\ f.paid = FALSE
                                           /\ f.fine_amt > 0}
            IN /\ BOOK_LOANS' = BOOK_LOANS
               /\ BORROWER' = BORROWER
               /\ card_id \notin BORROWER =>
                    /\ result'.exc = "ObjectDoesNotExist"
                    /\ FINES' = FINES
               /\ card_id \in BORROWER =>
                    /\ result'.exc = "none"
                    /\ FINES' = (FINES \ targeted)
                                  \cup {[f EXCEPT !.paid = TRUE] : f \in targeted}
                    /\ {result'.ret[k].loan_id : k \in 1..Len(result'.ret)}
                         = {f.loan_id : f \in targeted}
                    /\ Len(result'.ret) = Cardinality(targeted)
                    /\ \A k \in 1..Len(result'.ret) :
                         /\ result'.ret[k].paid = TRUE
                         /\ result'.ret[k].card_id = card_id]_vars

\* pay_borrower_fines has just paid a fine of one borrower while another
\* borrower keeps an unpaid fine.
C15_Witness ==
    /\ result.op = "pay_borrower_fines"
    /\ result.exc = "none"
    /\ Len(result.ret) = 1
    /\ \E f \in FINES :
         /\ f.paid = FALSE /\ f.fine_amt > 0
         /\ BOOK_LOANS[f.loan_id].card_id # result.args[1]

\* C16: the end-to-end trace.  checkout(C1, "111") yields an active loan L1;
\* update_fines(L1.due_date + 20) gives L1 an unpaid fine of 5.00; a checkout
\* by C1 of any other book is then refused for unpaid fines;
\* pay_loan_fine(L1) succeeds while L1 is active and sets paid = TRUE;
\* checkin(L1) then succeeds and sets date_in; any later update_fines leaves
\* L1's fine at 5.00, paid.
C16_EndToEnd ==
    /\ [](CheckoutDone => BOOK_LOANS[Len(BOOK_LOANS)].date_in = NULL)
    /\ [](result.op = "update_fines" =>
            \A i \in LoanIds :
               ( /\ BOOK_LOANS[i].date_in = NULL
                 /\ BOOK_LOANS[i].due_date + 20 = result.args[1]
                 /\ \A f \in FineRowsOf(i) : f.paid = FALSE )
               => FineRowsOf(i) = {[loan_id |-> i, fine_amt |-> 500, paid |-> FALSE]})
    /\ []((/\ result.op = "checkout"
           /\ \E f \in FINES : /\ BOOK_LOANS[f.loan_id].card_id = result.args[1]
                               /\ f.fine_amt = 500
                               /\ f.paid = FALSE) =>
            /\ CheckoutRefused
            /\ (result.args[2] \in BOOK /\ ActiveLoansOfBook(result.args[2]) = {})
                 => result.msg = "unpaid_fines")
    /\ [][(/\ result'.op = "pay_loan_fine"
           /\ result'.args[1] \in LoanIds
           /\ BOOK_LOANS[result'.args[1]].date_in = NULL
           /\ [loan_id |-> result'.args[1], fine_amt |-> 500, paid |-> FALSE] \in FINES) =>
            /\ result'.exc = "none"
            /\ {f \in FINES' : f.loan_id = result'.args[1]}
                 = {[loan_id |-> result'.args[1], fine_amt |-> 500, paid |-> TRUE]}
            /\ BOOK_LOANS' = BOOK_LOANS]_vars
    /\ [][(/\ result'.op = "checkin"
           /\ result'.args[1] \in LoanIds
           /\ BOOK_LOANS[result'.args[1]].date_in = NULL
           /\ [loan_id |-> result'.args[1], fine_amt |-> 500, paid |-> TRUE] \in FINES) =>
            /\ result'.exc = "none"
            /\ BOOK_LOANS'[result'.args[1]].date_in = today
            /\ FINES' = FINES]_vars
    /\ [][result'.op = "update_fines" =>
            \A i \in LoanIds :
               ( /\ BOOK_LOANS[i].date_in # NULL
                 /\ [loan_id |-> i, fine_amt |-> 500, paid |-> TRUE] \in FINES )
               => {f \in FINES' : f.loan_id = i}
                    = {[loan_id |-> i, fine_amt |-> 500, paid |-> TRUE]}]_vars

\* The end of the trace: L1, swept 20 days past its due date while active,
\* paid, then returned a day late, after a later sweep that selects it.
C16_Witness ==
    /\ result.op = "update_fines"
    /\ Len(BOOK_LOANS) >= 1
    /\ BOOK_LOANS[1].date_in # NULL
    /\ BOOK_LOANS[1].date_in > BOOK_LOANS[1].due_date
    /\ 1 \in Overdue(result.args[1])
    /\ FineRowsOf(1) = {[loan_id |-> 1, fine_amt |-> 500, paid |-> TRUE]}

\* The largest number after the prefix ID among the stored card_ids, 0 if none
MaxNumericId(rows) ==
    LET nums == {IntOf(SubSeq(c, 3, Len(c))) :
                   c \in {r \in rows : HasPrefixID(r) /\ IsNumeric(SubSeq(r, 3, Len(r)))}}
    IN IF nums = {} THEN 0 ELSE CHOOSE n \in nums : \A m \in nums : m <= n

\* C17: create_borrower called without a card_id (calls run one at a time)
\* generates the card_id ID followed by (maximum existing numeric id + 1)
\* zero-padded to fixed width, different from every card_id already stored,
\* also from those callers supplied, and larger than every id generated
\* before.
C17_GeneratedCardId ==
    ( /\ result.op = "create_borrower"
      /\ result.args[2] = NoCardId
      /\ result.exc # "ValidationError" ) =>
        /\ result.exc = "none"
        /\ LET id == result.ret[1].card_id
               stored == BORROWER \ {id}
           IN /\ id = ID \o ZeroPad(DigitsOf(MaxNumericId(stored) + 1), CARD_ID_WIDTH)
              /\ id \notin stored
              /\ \A c \in stored :
                   IntOf(SubSeq(c, 3, Len(c))) < IntOf(SubSeq(id, 3, Len(id)))

InjectiveSsn == \A c, d \in BORROWER : Ssn[c] = Ssn[d] => c = d

\* C20: no two borrowers ever share an SSN; create_borrower with an ssn
\* already stored fails with a validation error before any insert and leaves
\* the borrower table unchanged, for every sequence of calls run one at a time.
C20_UniqueSsn ==
    /\ [](DOMAIN Ssn = BORROWER /\ InjectiveSsn)
    /\ [][(result'.op = "create_borrower" /\ result'.args[1] \in StoredSsns) =>
            /\ result'.exc = "ValidationError"
            /\ result'.msg = "duplicate_ssn"
            /\ BORROWER' = BORROWER
            /\ Ssn' = Ssn]_vars

\* create_borrower has just been refused for an ssn that another borrower
\* holds, with a supplied card_id that is not stored.
C20_Witness ==
    /\ result.op = "create_borrower"
    /\ result.exc = "ValidationError"
    /\ result.args[1] \in StoredSsns
    /\ result.args[2] # NoCardId
    /\ result.args[2] \notin BORROWER
    /\ Cardinality(BORROWER) >= 2

Generating(h) ==
    /\ calls[h].op = "create_borrower"
    /\ calls[h].args[2] = NoCardId
    /\ calls[h].pc = "insert"

\* C18: the id allocator has no concurrency safety: two create_borrower calls
\* without card_id that both read the current maximum id before either
\* inserts compute the same card_id.
C18_DuplicateCardId ==
    \A h, g \in Handlers :
       (Generating(h) /\ Generating(g) /\ calls[h].row = calls[g].row)
         => calls[h].card_id = calls[g].card_id

\* Two calls in different handlers have read the same latest card_id of a
\* non-empty table and are both about to insert the same generated card_id.
C18_Witness ==
    \E h, g \in Handlers :
       /\ h # g
       /\ Generating(h) /\ Generating(g)
       /\ calls[h].row # <<>>
       /\ calls[h].row = calls[g].row
       /\ calls[h].card_id = calls[g].card_id
       /\ calls[h].args[1] # calls[g].args[1]
       /\ calls[h].card_id \notin BORROWER

CheckedOut(h) ==
    /\ calls[h].op = "checkout"
    /\ calls[h].pc = "done"
    /\ calls[h].exc = "none"

\* C19: concurrent checkouts race.  A checkout call that has passed its
\* checks inserts its loan whatever other calls inserted since the checks
\* ran, so two calls for the same available isbn that both run the
\* availability check before either inserts both succeed and the isbn ends
\* with two active loans; likewise for the cap of one borrower.
C19_CheckoutRace ==
    /\ [][\A h \in Handlers :
            (/\ calls[h].op = "checkout"
             /\ calls[h].pc = "insert"
             /\ calls'[h].pc = "done") =>
               /\ calls'[h].exc = "none"
               /\ Len(BOOK_LOANS') = Len(BOOK_LOANS) + 1
               /\ BOOK_LOANS'[Len(BOOK_LOANS')].isbn = calls[h].args[2]
               /\ BOOK_LOANS'[Len(BOOK_LOANS')].card_id = calls[h].args[1]
               /\ BOOK_LOANS'[Len(BOOK_LOANS')].date_in = NULL]_vars
    /\ [](\A h, g \in Handlers :
            (h # g /\ CheckedOut(h) /\ CheckedOut(g)) =>
               /\ calls[h].ret[1].loan_id # calls[g].ret[1].loan_id
               /\ calls[h].args[2] = calls[g].args[2] =>
                    {calls[h].ret[1].loan_id, calls[g].ret[1].loan_id}
                       \subseteq ActiveLoansOfBook(calls[h].args[2])
               /\ calls[h].args[1] = calls[g].args[1] =>
                    {calls[h].ret[1].loan_id, calls[g].ret[1].loan_id}
                       \subseteq ActiveLoansOfBorrower(calls[h].args[1]))

\* Both handlers have checked out the same isbn for the borrower who held two
\* active loans: the isbn has two active loans and the borrower four.
C19_Witness ==
    \E h, g \in Handlers :
       /\ h # g
       /\ CheckedOut(h) /\ CheckedOut(g)
       /\ calls[h].args = calls[g].args
       /\ Cardinality(ActiveLoansOfBook(calls[h].args[2])) = 2
       /\ Cardinality(ActiveLoansOfBorrower(calls[h].args[1])) = MAX_ACTIVE_LOANS + 1

\* C26: for the checkout and checkin endpoints a NotFound raised by the
\* operation yields status 404 or 400, a Validation/Conflict error yields
\* 400, and 500 is answered only for unexpected failures.
C26_StatusMapping ==
    result.op \in {"checkout", "checkin"} =>
       LET status == LoanEndpointStatus(result) IN
       /\ result.exc = "ObjectDoesNotExist" =>
             status \in {404, HTTP_BAD_REQUEST}
       /\ result.exc = "ValidationError" => status = HTTP_BAD_REQUEST
       /\ status = HTTP_SERVER_ERROR =>
             result.exc \notin {"none", "ObjectDoesNotExist", "ValidationError"}

\* C27: after a successful checkin of a loan whose due_date is before today,
\* the loan's Fine reflects the days late up to the return date and the Loan
\* returned by checkin carries that amount, whether or not a sweep has run.
C27_CheckinRecalculates ==
    (/\ result.op = "checkin"
     /\ result.exc = "none"
     /\ BOOK_LOANS[result.args[1]].due_date < today) =>
       LET loan_id == result.args[1]
           l       == BOOK_LOANS[loan_id]
       IN /\ \E f \in FineRowsOf(loan_id) :
                f.paid \/ f.fine_amt = (l.date_in - l.due_date) * FINE_RATE_CENTS
          /\ result.ret[1].fine_amt > 0
          /\ \E f \in FineRowsOf(loan_id) : result.ret[1].fine_amt = f.fine_amt

ParsedQuery == result.op = "Query.of" /\ result.exc = "none"

\* The legal values of a filter field, each as written in the query and as
\* the canonical value the field is to hold
LegalValues(f) ==
    IF f \in TextFields
    THEN {<<<<"x">>, StrVal(<<"x">>)>>,
          <<<<"A", "b">>, StrVal(<<"A", "b">>)>>,
          <<<<"a", ":", "b">>, StrVal(<<"a", ":", "b">>)>>,
          <<(<<"\"">> \o <<"a", " ", "b">> \o <<"\"">>), StrVal(<<"a", " ", "b">>)>>}
    ELSE UNION {{<<w, VALUE_MAPPINGS[f][w]>>, <<upper(w), VALUE_MAPPINGS[f][w]>>}
                : w \in DOMAIN VALUE_MAPPINGS[f]}

\* C21: for every filter field F, every keyword K of F (its name or an
\* alias, in either case) and every legal value V, parsing the single token
\* K:V sets field F, and only F, to the canonical value of V; enum and
\* boolean values are matched case-insensitively.
C21_ParserRoundTrip ==
    \A f \in TextFields \cup DOMAIN VALUE_MAPPINGS :
       \A w \in KeywordsOf(f) :
          \A k \in BothCases(w) :
             \A v \in LegalValues(f) :
                (result.op = "Query.of" /\ result.args = <<Token(k, v[1])>>) =>
                   /\ result.exc = "none"
                   /\ result.ret = <<[NewQuery(Token(k, v[1])) EXCEPT ![f] = v[2]]>>

\* LOAN_STATUS:IN has been parsed: loan_is is LoanStatus.RETURNED.
C21_Witness ==
    /\ ParsedQuery
    /\ result.args = <<Token(upper(<<"l", "o", "a", "n", "_", "s", "t", "a", "t", "u", "s">>), upper(<<"i", "n">>))>>
    /\ result.ret[1]["loan_is"] = RETURNED

DocumentedKeywords ==
    UNION {KeywordsOf(f) : f \in TextFields \cup DOMAIN VALUE_MAPPINGS \cup NumberFields}

UndocumentedTokens ==
    {Token(k, <<"x">>) : k \in {w \in OtherKeywords : lower(w) \notin DocumentedKeywords}}

\* C22: a token whose keyword is not a documented keyword or alias is
\* dropped: parsing raises nothing, and every field, the free text, sort,
\* order, limit and page are as they are without the token.
C22_UnknownKeywordDropped ==
    \A u \in UndocumentedTokens :
       /\ (result.op = "Query.of" /\ result.args = <<u>>) =>
             /\ result.exc = "none"
             /\ \A a \in QueryFields : result.ret[1][a] = NewQuery(u)[a]
       /\ \A b \in BaseTokens :
             \A query_string \in {b \o <<" ">> \o u, u \o <<" ">> \o b} :
                (result.op = "Query.of" /\ result.args = <<query_string>>) =>
                   /\ result.exc = "none"
                   /\ \A a \in QueryFields :
                         result.ret[1][a] =
                            [of(b).q EXCEPT !["raw_query"] = StrVal(query_string)][a]

\* C29: the parsed Query has page >= 1 and limit unset or >= 0, so the
\* offset (page - 1) * limit is never negative.
C29_OffsetNotNegative ==
    ParsedQuery =>
       LET query == result.ret[1] IN
       /\ query["page"].n >= 1
       /\ query["limit"].t # "None" =>
             /\ query["limit"].n >= 0
             /\ (query["page"].n - 1) * query["limit"].n >= 0

\* A search has returned its Results
SearchOps ==
    {"search_books", "search_books_with_loan", "search_loans",
     "search_loans_with_book", "search_borrowers", "search_borrowers_with_fines"}
SearchDone == result.op \in SearchOps /\ result.exc = "none"
SearchQuery == result.args[Len(result.args)]
Found == result.ret[1]

\* C23: for any limit L and page P >= 1 the items of a search are positions
\* (P-1)*L up to P*L of the full match list and total is the length of that
\* list; so the page holds as many items as the total leaves for it,
\* min(L, total - (P-1)*L), and none when the page is past the end.
C23_PageOfTotal ==
    (SearchDone /\ SearchQuery["limit"].t = "int" /\ SearchQuery["page"].n >= 1) =>
       LET L    == SearchQuery["limit"].n
           rest == Found.total - OffsetOf(SearchQuery)
       IN Len(Found.items) = IF rest <= 0 THEN 0 ELSE IF rest < L THEN rest ELSE L

\* C24: with limit unset a search returns every matching entity, and total
\* is the number of items returned.
C24_UnlimitedTotal ==
    (SearchDone /\ SearchQuery["limit"] = None) => Found.total = Len(Found.items)

\* The sort key of a returned item: the column sort names, or the default
\* column of the entity when sort names none or is unset
ResultKey(x) ==
    LET sort_field == IF Truthy(SearchQuery["sort"]) THEN lower(SearchQuery["sort"].s)
                      ELSE <<>>
    IN CASE result.op = "search_books" -> BookSortKey(sort_field, x)
         [] result.op = "search_books_with_loan" -> BookSortKey(sort_field, x.book)
         [] result.op = "search_loans" -> LoanSortKey(sort_field, x)
         [] result.op = "search_loans_with_book" ->
               IF sort_field = <<"t", "i", "t", "l", "e">> THEN KeyOfStr(x.book.title)
               ELSE LoanSortKey(sort_field, x.loan)
         [] result.op = "search_borrowers" -> KeyOfStr(FormatNat(x.card_id))
         [] result.op = "search_borrowers_with_fines" ->
               IF sort_field \in {<<"f", "i", "n", "e", "_", "a", "m", "t">>, <<"f", "i", "n", "e", "s">>}
               THEN KeyOfInt(x.total_fines)
               ELSE KeyOfStr(FormatNat(x.borrower.card_id))

\* C25: the items of a search are in ascending order of the sort key, and in
\* descending order when the query's order is descending, whether sort names
\* a sortable field, another field or is unset.
C25_OrderFollowsQuery ==
    SearchDone =>
       Ordered(Found.items, [x \in Range(Found.items) |-> ResultKey(x)],
               IF SearchQuery["order"] = DESCENDING THEN "DESC" ELSE "ASC")

\* C30: while update_fines runs statement by statement next to pay_loan_fine,
\* pay_borrower_fines or another update_fines, no step changes the fine_amt
\* of a FINES row that is marked paid, and no loan has more than one FINES row.
C30_FineRace ==
    /\ [](\A i \in LoanIds : Cardinality(FineRowsOf(i)) <= 1)
    /\ [][\A f \in FINES : f.paid = TRUE =>
             \E g \in FINES' : g.loan_id = f.loan_id /\ g.fine_amt = f.fine_amt]_vars

\* update_fines has found the Fine row of a loan and stands before its UPDATE
\* with a new amount, and meanwhile a payment has marked that row paid.
C30_Witness ==
    \E h \in Handlers, g \in Handlers :
       /\ calls[h].op = "update_fines" /\ calls[h].pc = "update"
       /\ calls[g].op \in {"pay_loan_fine", "pay_borrower_fines"}
       /\ calls[g].pc \in {"read", "done"}
       /\ \E f \in FineRowsOf(Head(calls[h].todo)) :
             /\ f.paid = TRUE
             /\ f.fine_amt # FineAmt(BOOK_LOANS[f.loan_id], calls[h].args[1])

====
